---- MODULE Spec2Model ----
(***************************************************************************)
(* Incremental synchronisation and two-way tag reconciliation of the       *)
(* zotero-connector plugin: SyncManager (syncAll, syncSingleItem,          *)
(* syncTagsTwoWay), VersionTracker, and the plugin commands that touch the *)
(* same settings object (clearSyncCache, registerExistingNotes).           *)
(*                                                                         *)
(* A tag is a sequence of one-character strings, so that the string        *)
(* conversions of the code (normalizeTag, the whitespace-to-hyphen         *)
(* formatting, the hyphen-to-space conversion of a push) are computed      *)
(* character by character.                                                 *)
(***************************************************************************)
EXTENDS Integers, Sequences, FiniteSets, TLC

\* ------------------------------------------------------------------ tags

\* UTF-16 code units of the characters tags are written with (Array.sort order).
charCode(c) ==
  CASE c = " " -> 32
    [] c = "-" -> 45
    [] c = "A" -> 65
    [] c = "X" -> 88
    [] c = "a" -> 97
    [] c = "b" -> 98
    [] c = "c" -> 99
    [] c = "o" -> 111
    [] c = "x" -> 120
    [] c = "y" -> 121

\* String.prototype.toLowerCase on one character.
toLowerCase(c) ==
  CASE c = "A" -> "a"
    [] c = "X" -> "x"
    [] OTHER -> c

\* \s of the regular expressions.
isWhitespace(c) == c = " "

\* normalizeTag: tag.replace(/-/g, ' ').toLowerCase()
normalizeTag(tag) ==
  [i \in 1..Len(tag) |-> toLowerCase(IF tag[i] = "-" THEN " " ELSE tag[i])]

\* t.replace(/\s+/g, '-'): every maximal run of whitespace becomes one hyphen.
RECURSIVE formattedTag(_)
formattedTag(t) ==
  IF t = <<>> THEN <<>>
  ELSE IF isWhitespace(Head(t))
       THEN IF Len(t) > 1 /\ isWhitespace(t[2])
            THEN formattedTag(Tail(t))
            ELSE <<"-">> \o formattedTag(Tail(t))
       ELSE <<Head(t)>> \o formattedTag(Tail(t))

\* t.replace(/-/g, ' '): the form a tag is pushed to the remote in.
tagForZotero(t) == [i \in 1..Len(t) |-> IF t[i] = "-" THEN " " ELSE t[i]]

\* String.prototype.trim (parseFrontmatterTags trims each list entry).
RECURSIVE trimStart(_)
trimStart(t) ==
  IF t # <<>> /\ isWhitespace(Head(t)) THEN trimStart(Tail(t)) ELSE t

RECURSIVE trimEnd(_)
trimEnd(t) ==
  IF t # <<>> /\ isWhitespace(t[Len(t)])
  THEN trimEnd(SubSeq(t, 1, Len(t) - 1))
  ELSE t

trim(t) == trimEnd(trimStart(t))

\* a < b in the order Array.prototype.sort uses for strings.
RECURSIVE strLess(_, _)
strLess(a, b) ==
  IF b = <<>> THEN FALSE
  ELSE IF a = <<>> THEN TRUE
  ELSE IF charCode(Head(a)) # charCode(Head(b))
       THEN charCode(Head(a)) < charCode(Head(b))
       ELSE strLess(Tail(a), Tail(b))

RECURSIVE insertSorted(_, _)
insertSorted(v, s) ==
  IF s = <<>> THEN <<v>>
  ELSE IF strLess(Head(s), v)
       THEN <<Head(s)>> \o insertSorted(v, Tail(s))
       ELSE <<v>> \o s

\* Array.prototype.sort on a list of strings.
RECURSIVE sort(_)
sort(s) == IF s = <<>> THEN <<>> ELSE insertSorted(Head(s), sort(Tail(s)))

mapSeq(Op(_), s) == [i \in 1..Len(s) |-> Op(s[i])]

RECURSIVE filterSeq(_, _)
filterSeq(Keep(_), s) ==
  IF s = <<>> THEN <<>>
  ELSE IF Keep(Head(s))
       THEN <<Head(s)>> \o filterSeq(Keep, Tail(s))
       ELSE filterSeq(Keep, Tail(s))

\* new Set(list.map(t => this.normalizeTag(t)))
normSet(s) == {normalizeTag(s[i]) : i \in 1..Len(s)}

\* tagsEqual: same length and the sorted normalized lists agree position by position.
tagsEqual(a, b) ==
  IF Len(a) # Len(b) THEN FALSE
  ELSE LET normA == sort(mapSeq(normalizeTag, a))
           normB == sort(mapSeq(normalizeTag, b))
       IN \A i \in 1..Len(normA) : normA[i] = normB[i]

\* settings.syncTag (DEFAULT_SETTINGS.syncTag, abbreviated).
syncTag == <<"o", "b">>


\* -------------------------------------------------------- two-way tag merge

\* The loops of syncTagsTwoWay that append Zotero tags: a tag is appended, formatted,
\* when its normalized form is neither in `blocked` (lastSyncedNormSet; empty on a first
\* sync) nor in `seen` (fmNormSet / mergedNormSet, which grows with every tag appended).
RECURSIVE addZoteroTags(_, _, _, _)
addZoteroTags(merged, seen, blocked, zoteroTags) ==
  IF zoteroTags = <<>> THEN merged
  ELSE LET zt == Head(zoteroTags)
           norm == normalizeTag(zt)
       IN IF norm \notin blocked /\ norm \notin seen
          THEN addZoteroTags(Append(merged, formattedTag(zt)), seen \cup {norm},
                             blocked, Tail(zoteroTags))
          ELSE addZoteroTags(merged, seen, blocked, Tail(zoteroTags))

\* item.data.tags without the sync tag.
zoteroTagsOf(itemTags) == filterSeq(LAMBDA t : t # syncTag, itemTags)

\* A first sync that takes the Zotero tags and drops the tags of the note.
firstSyncMergeZoteroWins(fmTags, zoteroTags) == mapSeq(formattedTag, zoteroTags)

\* A merge that never removes a tag of the note.
normalMergeNoRemoval(fmTags, zoteroTags, lastSynced) ==
  addZoteroTags(fmTags, normSet(fmTags), normSet(lastSynced), zoteroTags)

\* !lastSynced branch: keep the frontmatter tags, add the Zotero tags not yet present.
firstSyncMerge(fmTags, zoteroTags) ==
  addZoteroTags(fmTags, normSet(fmTags), {}, zoteroTags)

\* A merge that takes every Zotero tag missing from the note as new.
normalMergeReadds(fmTags, zoteroTags, lastSynced) ==
  LET zoteroNormSet == normSet(zoteroTags)
      removedInZotero == {normalizeTag(lastSynced[i]) : i \in 1..Len(lastSynced)}
                           \ zoteroNormSet
      merged == filterSeq(LAMBDA t : normalizeTag(t) \notin removedInZotero, fmTags)
  IN addZoteroTags(merged, normSet(merged), {}, zoteroTags)

\* Normal merge: drop what was deleted in Zotero since the last sync, add what is new there.
normalMerge(fmTags, zoteroTags, lastSynced) ==
  LET zoteroNormSet == normSet(zoteroTags)
      removedInZotero == {normalizeTag(lastSynced[i]) : i \in 1..Len(lastSynced)}
                           \ zoteroNormSet
      merged == filterSeq(LAMBDA t : normalizeTag(t) \notin removedInZotero, fmTags)
  IN addZoteroTags(merged, normSet(merged), normSet(lastSynced), zoteroTags)

\* pushTagsToZotero: whether patchItemTags is called, and the tag list it is called with.
pushNeeded(merged, zoteroTags) == ~tagsEqual(merged, zoteroTags)

\* A payload made of the merged tags only.
tagsForZoteroMergedOnly(merged) == mapSeq(tagForZotero, merged)

tagsForZotero(merged) == Append(mapSeq(tagForZotero, merged), syncTag)

\* parseFrontmatterTags: the entries of the tags: block of the frontmatter, trimmed.
parseFrontmatterTags(content) == mapSeq(trim, content.tags)

\* renderFrontmatter: the tags: block written for item.data.tags (sync tag left out).
renderFrontmatterTags(itemTags) == mapSeq(formattedTag, zoteroTagsOf(itemTags))

\* lastSyncedTags[key] when the key has no entry.
NoTags == [present |-> FALSE, tags |-> <<>>]
SomeTags(t) == [present |-> TRUE, tags |-> t]

\* ------------------------------------------------------- the Comments section

\* The text of a note below its frontmatter, as a sequence of pieces: a line break, one
\* of the three strings the renderer searches for, another line that starts with '## ',
\* or a stretch of other text without a line break.
newline == "\n"
beginComments == "%% begin Comments %%"
endComments == "%% end Comments %%"
commentsHeading == "## Comments"
otherHeadings == {"## Article information", "## Reading notes", "## Mine"}

\* content.indexOf(piece, from): the first position at or after from, 0 when there is
\* none.
indexOf(content, piece, from) ==
  LET at == {i \in from..Len(content) : content[i] = piece}
  IN IF from < 1 \/ at = {} THEN 0 ELSE CHOOSE i \in at : \A j \in at : i <= j

\* content.indexOf('\n## ', from): the first line break at or after from that a line
\* starting with '## ' follows.
indexOfHeading(content, from) ==
  LET at == {i \in from..(Len(content) - 1) :
               /\ content[i] = newline
               /\ content[i + 1] \in otherHeadings \cup {commentsHeading}}
  IN IF from < 1 \/ at = {} THEN 0 ELSE CHOOSE i \in at : \A j \in at : i <= j

\* content.substring(start, end), end being the position after the last piece taken.
substring(content, start, end) == SubSeq(content, start, end - 1)

NoRange == [found |-> FALSE, start |-> 0, end |-> 0]

\* findCommentsRange(content)
findCommentsRange(content) ==
  LET markerStart == indexOf(content, beginComments, 1)
      markerEnd == indexOf(content, endComments, markerStart)
      commentsStart == indexOf(content, commentsHeading, 1)
      afterHeading == indexOf(content, newline, commentsStart)
      nextHeading == indexOfHeading(content, afterHeading)
  IN IF markerStart # 0 /\ markerEnd # 0
     THEN [found |-> TRUE, start |-> markerStart, end |-> markerEnd + 1]
     ELSE IF commentsStart = 0 THEN NoRange
     ELSE IF afterHeading = 0
     THEN [found |-> TRUE, start |-> commentsStart, end |-> Len(content) + 1]
     ELSE [found |-> TRUE, start |-> commentsStart,
           end |-> IF nextHeading = 0 THEN Len(content) + 1 ELSE nextHeading + 1]

\* renderWithPreservedComments(syncData, existingContent, newContent)
renderWithPreservedComments(existingContent, rendered) ==
  LET oldRange == findCommentsRange(existingContent)
      cut == substring(existingContent, oldRange.start, oldRange.end)
      preservedComments ==
        IF indexOf(cut, beginComments, 1) = 0
        THEN <<beginComments, newline>> \o cut \o <<newline, endComments>>
        ELSE cut
      newRange == findCommentsRange(rendered)
  IN IF ~oldRange.found THEN rendered
     ELSE IF ~newRange.found THEN rendered
     ELSE substring(rendered, 1, newRange.start) \o preservedComments
            \o substring(rendered, newRange.end, Len(rendered) + 1)

\* renderCommentsSection()
renderCommentsSection ==
  <<newline, beginComments, newline, commentsHeading, newline, newline, endComments>>

\* The templates a note is rendered from: none (render(syncData): the sections joined
\* by line breaks), a template file with {{comments_section}}, one with a bare
\* '## Comments' heading, one without a Comments section.
Templates == {"", "markers", "heading", "none"}

\* render(syncData) and renderFromTemplate(syncData, template), below the frontmatter.
render(template) ==
  IF template \in {"", "markers"}
  THEN <<"frontmatter", newline>> \o renderCommentsSection
         \o <<newline, "callouts", newline, newline, "## Reading notes", newline,
              "annotations">>
  ELSE IF template = "heading"
  THEN <<"frontmatter", newline, commentsHeading, newline, newline,
         "## Article information", newline, "callouts">>
  ELSE <<"frontmatter", newline, "## Article information", newline, "callouts">>

\* vault.read of a file that is not there (existingContent = null).
NoFile == [exists |-> FALSE, key |-> "", tags |-> <<>>, body |-> <<>>]

\* syncTagsTwoWay(item, existingContent) with lastSynced = settings.lastSyncedTags[item.key]:
\* the merged list returned, the value stored in lastSyncedTags, and the push decision.
syncTagsTwoWay(itemTags, existingContent, lastSynced) ==
  LET zoteroTags == zoteroTagsOf(itemTags)
  IN IF ~existingContent.exists
     THEN [merged |-> zoteroTags,
           lastSyncedTags |-> mapSeq(formattedTag, zoteroTags),
           push |-> FALSE, payload |-> <<>>]
     ELSE LET fmTags == parseFrontmatterTags(existingContent)
              merged == IF ~lastSynced.present
                        THEN firstSyncMerge(fmTags, zoteroTags)
                        ELSE normalMerge(fmTags, zoteroTags, lastSynced.tags)
          IN [merged |-> merged,
              lastSyncedTags |-> merged,
              push |-> pushNeeded(merged, zoteroTags),
              payload |-> IF pushNeeded(merged, zoteroTags)
                          THEN tagsForZotero(merged) ELSE <<>>]


\* ------------------------------------------------------------------ bounds

\* Number of invocations of syncAll / syncSingleItem that can be in flight at once.
MaxCalls == 2
\* Number of operations started in one behaviour: invocations of a sync,
\* cache clears, register commands, edits of a Zotero user and of a vault user.
MaxOps == 3

Calls == 1..MaxCalls

\* ------------------------------------------------------------------- state

\* Item keys of the remote library.
Keys == {"K1", "K2"}

\* Tag lists a Zotero user gives an item (sync tag not shown), and tag lists a
\* vault user writes into the frontmatter of a note.
RemoteTagLists == {<<>>, <<<<"x", " ", "y">>>>, <<<<"a">>, <<"x", " ", "y">>>>}
NoteTagLists == {<<>>, <<<<"a">>>>, <<<<"x", "-", "y">>, <<"b">>>>}

\* The items a user edits and syncs one at a time; the other items only take part in
\* full syncs.
EditedKeys == {"K1"}

\* The tags of the items when a behaviour starts.
initialTags(k) == IF k = "K1" THEN <<<<"x", " ", "y">>>> ELSE <<<<"a">>>>

VARIABLES
  isSyncing,        \* SyncManager.isSyncing
  itemVersions,     \* settings.itemVersions: key -> version, NoVersion when undefined
  lastSyncVersion,  \* settings.lastSyncVersion
  lastSyncedTags,   \* settings.lastSyncedTags: key -> tag list, NoTags when undefined
  itemFilenames,    \* settings.itemFilenames: key -> filename, "" when undefined
  vault,            \* the notes of the output folder: filename -> note
  notedTags,        \* key -> the normalized tags syncs have written into its note
  remote,           \* the Zotero library: key -> [version, tags]
  remoteVersion,    \* Last-Modified-Version of the library
  call,             \* the invocations of syncAll / syncSingleItem in flight
  reg,              \* the registerExistingNotes command in flight
  returned,         \* the SyncResult most recently returned, with what the call did
  ops,              \* operations started so far
  req               \* ZoteroApiClient.request: the request under way, with its waits

vars == <<isSyncing, itemVersions, lastSyncVersion, lastSyncedTags, itemFilenames,
          vault, notedTags, remote, remoteVersion, call, reg, returned, ops, req>>

settingsVars == <<itemVersions, lastSyncVersion, lastSyncedTags, itemFilenames>>

\* itemVersions[key] when the key has no entry.
NoVersion == -1

\* A response header that is absent.
NoHeader == -1

\* No request has been made.
NoRequest == [pc |-> "idle", path |-> "", method |-> "", status |-> 0,
              backoff |-> NoHeader, retryAfter |-> NoHeader, sleepFor |-> 0,
              slept |-> 0, attempts |-> 0, calls |-> 0]

\* The citation keys the items carry in their extra field, and the paths they name.
Citekeys == {"F1", "F2"}
Files == Citekeys

\* Citation keys that differ from item to item.
citekeyOf(k) == IF k = "K1" THEN "F1" ELSE "F2"

\* generateFilename(item, settings) under the '{{citekey}}' template: the citekey of
\* the item.
generateFilename(key) == remote[key].citekey

\* Whether the note rendered for the item contains an '[Area highlight' placeholder
\* (an image annotation whose image could not be fetched).
hasAreaHighlight(key) == key = "K2"

\* SyncResult
emptyResult == [created |-> 0, updated |-> 0, skipped |-> 0, errors |-> <<>>]

\* What a call has done so far, kept next to its SyncResult: the keys the remote
\* delivered, those skipped, those taken into processing, those whose note was written,
\* those created from nothing (no note, no version entry), those whose render or write
\* failed after the tag merge, those whose tag push the remote accepted, those whose
\* tag push it rejected.
NoDone == [valid |-> FALSE, delivered |-> {}, skipped |-> {}, processed |-> {},
           written |-> {}, createdNew |-> {}, failedWrite |-> {}, pushed |-> {},
           rejected |-> {}]

baselines == [itemVersions |-> itemVersions, lastSyncVersion |-> lastSyncVersion,
              lastSyncedTags |-> lastSyncedTags]
NoBaselines == [itemVersions |-> [k \in Keys |-> NoVersion], lastSyncVersion |-> 0,
                lastSyncedTags |-> [k \in Keys |-> NoTags]]

\* Which baselines are, when a call returns, what they were when it was invoked.
NoKept == [versions |-> {}, tags |-> {}, cursor |-> FALSE]
keptSince(pre) ==
  [versions |-> {k \in Keys : itemVersions[k] = pre.itemVersions[k]},
   tags |-> {k \in Keys : lastSyncedTags[k] = pre.lastSyncedTags[k]},
   cursor |-> lastSyncVersion = pre.lastSyncVersion]

\* What a call remembers of the call that returned before it was invoked.
NoPrev == [op |-> "", how |-> "none", clean |-> FALSE, noErrors |-> FALSE,
           createdNew |-> {}, failedWrite |-> {}, rejected |-> {}, written |-> {},
           cleared |-> FALSE]

\* What returned last. cleared: it was clearSyncCache, or a call during which
\* clearSyncCache ran.
NoReturn == [op |-> "", how |-> "none", result |-> emptyResult, done |-> NoDone,
             clean |-> FALSE, kept |-> NoKept, prev |-> NoPrev, cleared |-> FALSE]

prevOf(r) == [op |-> r.op, how |-> r.how, clean |-> r.clean,
              noErrors |-> r.result.errors = <<>>,
              createdNew |-> r.done.createdNew, failedWrite |-> r.done.failedWrite,
              rejected |-> r.done.rejected \ r.done.failedWrite,
              written |-> r.done.written,
              cleared |-> r.cleared]

NoItem == [key |-> "", version |-> 0, tags |-> <<>>]

\* The inputs and the push decision of the tag merge of the item in hand.
NoMerge == [ran |-> FALSE, zoteroTags |-> <<>>, hadContent |-> FALSE, fmTags |-> <<>>,
            lastSynced |-> NoTags, push |-> FALSE, payload |-> <<>>]
\* The item in hand. templatePath and preserveUserContent are the settings of
\* DEFAULT_SETTINGS unless a behaviour starts with others.
NoCur == [filename |-> "", fileExists |-> FALSE, hasLocalCache |-> FALSE,
          existingContent |-> NoFile, mergedTags |-> <<>>, merge |-> NoMerge,
          templatePath |-> "", preserveUserContent |-> TRUE]

IdleCall == [pc |-> "idle", op |-> "", items |-> <<>>, idx |-> 0, libraryVersion |-> 0,
             result |-> emptyResult, cur |-> NoCur, done |-> NoDone,
             pre |-> NoBaselines, clean |-> TRUE, prev |-> NoPrev, cleared |-> FALSE]

IdleReg == [pc |-> "idle", unsyncedKeys |-> {}]

\* The tags: block of the note of K1 after its user has added a tag to it.
OfflineNoteTags == <<<<"x", "-", "y">>, <<"b">>>>

\* A behaviour starts from a fresh installation (default settings, no notes), or from
\* the state one full sync of the library leaves behind and the plugin loads again,
\* with or without a tag added to a note while the plugin was not running.
Init ==
  /\ isSyncing = FALSE
  /\ remote = [k \in Keys |-> [version |-> 1, tags |-> Append(initialTags(k), syncTag),
                              citekey |-> citekeyOf(k)]]
  /\ remoteVersion = 1
  /\ \E synced \in BOOLEAN, edited \in BOOLEAN :
       IF ~synced /\ edited THEN FALSE
       ELSE IF synced
       THEN /\ itemVersions = [k \in Keys |-> 1]
            /\ lastSyncVersion = 1
            /\ lastSyncedTags = [k \in Keys |-> SomeTags(mapSeq(formattedTag, initialTags(k)))]
            /\ itemFilenames = [k \in Keys |-> citekeyOf(k)]
            /\ vault = [f \in Files |->
                 LET k == CHOOSE k \in Keys : citekeyOf(k) = f
                 IN [exists |-> TRUE, key |-> k,
                     tags |-> IF edited /\ k \in EditedKeys THEN OfflineNoteTags
                              ELSE renderFrontmatterTags(remote[k].tags),
                     body |-> render("")]]
            /\ notedTags = [k \in Keys |-> normSet(initialTags(k))]
       ELSE /\ itemVersions = [k \in Keys |-> NoVersion]
            /\ lastSyncVersion = 0
            /\ lastSyncedTags = [k \in Keys |-> NoTags]
            /\ itemFilenames = [k \in Keys |-> ""]
            /\ vault = [f \in Files |-> NoFile]
            /\ notedTags = [k \in Keys |-> {}]
  /\ call = [c \in Calls |-> IdleCall]
  /\ reg = IdleReg
  /\ returned = NoReturn
  /\ ops = 0
  /\ req = NoRequest

\* One more operation is started.
Start == ops < MaxOps /\ ops' = ops + 1

\* ------------------------------------------------------------ remote library

hasTag(tags, t) == \E i \in 1..Len(tags) : tags[i] = t

keyOrder(k) == IF k = "K1" THEN 1 ELSE 2

\* sort=dateModified, direction=desc: the item written last comes first.
RECURSIVE newestFirst(_)
newestFirst(S) ==
  IF S = {} THEN <<>>
  ELSE LET k == CHOOSE k \in S : \A j \in S :
                   \/ remote[j].version < remote[k].version
                   \/ remote[j].version = remote[k].version /\ keyOrder(k) <= keyOrder(j)
       IN <<[key |-> k, version |-> remote[k].version, tags |-> remote[k].tags]>>
            \o newestFirst(S \ {k})

\* A fetch that never sends the since parameter.
fetchItemsByTagNoSince(tag, since) ==
  newestFirst({k \in Keys : hasTag(remote[k].tags, tag)})

\* A fetch whose since parameter also returns the items written at that version.
fetchItemsByTagSinceInclusive(tag, since) ==
  newestFirst({k \in Keys : /\ hasTag(remote[k].tags, tag)
                            /\ (since > 0 => remote[k].version >= since)})

\* fetchItemsByTag(tag, since): the items carrying the tag, only those written after
\* library version `since` when since > 0.
fetchItemsByTag(tag, since) ==
  newestFirst({k \in Keys : /\ hasTag(remote[k].tags, tag)
                            /\ (since > 0 => remote[k].version > since)})

\* ------------------------------------------------------------ VersionTracker

\* isItemChanged(itemKey, newVersion)
isItemChanged(itemKey, newVersion) ==
  itemVersions[itemKey] = NoVersion \/ itemVersions[itemKey] < newVersion

\* clearAll(): lastSyncVersion = 0, itemVersions = {}
clearAll ==
  /\ lastSyncVersion' = 0
  /\ itemVersions' = [k \in Keys |-> NoVersion]

\* ------------------------------------------------------------- SyncManager

\* A guard that never rejects.
guardMissing == FALSE

\* if (this.isSyncing) at the top of syncAll and syncSingleItem.
alreadySyncing == isSyncing

\* hasMissingImageAnnotations(file): a local cache is configured for this host and
\* the note contains '[Area highlight'.
hasMissingImageAnnotations(content, hasLocalCache) ==
  hasLocalCache /\ hasAreaHighlight(content.key)

\* hasLocalTagChanges(file, itemKey)
hasLocalTagChanges(content, itemKey) ==
  IF ~lastSyncedTags[itemKey].present THEN FALSE
  ELSE ~tagsEqual(parseFrontmatterTags(content), lastSyncedTags[itemKey].tags)

\* A write that removes the note.
renderContentUnlinks(item, mergedTags, template) == NoFile

\* The note written for an item: the frontmatter of renderFrontmatter with the merged
\* tags and the sync tag as item.data.tags.
renderContent(item, mergedTags, template) ==
  [exists |-> TRUE, key |-> item.key,
   tags |-> renderFrontmatterTags(Append(mergedTags, syncTag)),
   body |-> render(template)]

\* An error entry that carries no message.
errorWithoutMessage(msg, key) == [msg |-> "", key |-> key]

\* An error entry that does not say which item it is about.
errorWithoutKey(msg, key) == [msg |-> msg, key |-> ""]

error(msg, key) == [msg |-> msg, key |-> key]

\* An invocation takes the lowest free slot.
freeSlot(c) == call[c].pc = "idle" /\ \A d \in Calls : d < c => call[d].pc # "idle"

\* A return that skips the finally block: isSyncing stays as it is.
ReturnWithoutFinally(c, how, cl) ==
  /\ returned' = [op |-> cl.op, how |-> how, result |-> cl.result,
                  done |-> [cl.done EXCEPT !.valid = TRUE],
                  clean |-> cl.clean, kept |-> keptSince(cl.pre), prev |-> cl.prev,
                  cleared |-> cl.cleared]
  /\ call' = [call EXCEPT ![c] = IdleCall]
  /\ UNCHANGED isSyncing

\* return result, through the finally block that resets isSyncing.
Return(c, how, cl) ==
  /\ returned' = [op |-> cl.op, how |-> how, result |-> cl.result,
                  done |-> [cl.done EXCEPT !.valid = TRUE],
                  clean |-> cl.clean, kept |-> keptSince(cl.pre), prev |-> cl.prev,
                  cleared |-> cl.cleared]
  /\ call' = [call EXCEPT ![c] = IdleCall]
  /\ isSyncing' = FALSE

\* The synchronous head of syncAll() and syncSingleItem(itemKey): the guard, the user id
\* check, up to the first await. userId is whether settings.userId is set.
Invoke(c, op, itemKey, userId) ==
  /\ freeSlot(c)
  /\ Start
  /\ IF alreadySyncing
     THEN /\ returned' = [NoReturn EXCEPT
                            !.op = op, !.how = "busy",
                            !.result.errors = <<error("Sync already in progress", "")>>]
          /\ UNCHANGED <<isSyncing, call>>
     ELSE IF ~userId
     THEN /\ Return(c, "failed",
                    [IdleCall EXCEPT !.op = op, !.pre = baselines,
                                     !.prev = prevOf(returned),
                                     !.result.errors = <<error("Sync failed", "")>>])
     ELSE /\ isSyncing' = TRUE
          /\ call' = [call EXCEPT ![c] =
                        [IdleCall EXCEPT
                           !.pc = "fetch", !.op = op,
                           !.items = IF op = "syncAll" THEN <<>>
                                     ELSE <<[NoItem EXCEPT !.key = itemKey]>>,
                           !.pre = baselines, !.prev = prevOf(returned)]]
          /\ UNCHANGED returned
  /\ UNCHANGED <<settingsVars, vault, notedTags, req, remote, remoteVersion, reg>>

syncAll(c) == \E userId \in BOOLEAN : Invoke(c, "syncAll", "", userId)

syncSingleItem(c) ==
  \E itemKey \in EditedKeys, userId \in BOOLEAN :
     Invoke(c, "syncSingleItem", itemKey, userId)

\* syncAll: fetchCollections and fetchItemsByTag; the 'Nothing changed' return.
FetchItems(c) ==
  /\ call[c].pc = "fetch" /\ call[c].op = "syncAll"
  /\ \E ok \in BOOLEAN :
       LET cl == call[c]
           sinceVersion == lastSyncVersion
           items == fetchItemsByTag(syncTag, sinceVersion)
       IN IF ~ok
          THEN Return(c, "failed",
                      [cl EXCEPT !.result.errors = Append(@, error("Sync failed", ""))])
          ELSE IF items = <<>> /\ sinceVersion > 0
          THEN Return(c, "nothing", cl)
          ELSE /\ call' = [call EXCEPT ![c] =
                             [cl EXCEPT !.pc = "item", !.items = items, !.idx = 1,
                                        !.libraryVersion = remoteVersion,
                                        !.done.delivered =
                                           {items[i].key : i \in 1..Len(items)}]]
               /\ UNCHANGED <<isSyncing, returned>>
  /\ UNCHANGED <<settingsVars, vault, notedTags, req, remote, remoteVersion, reg, ops>>

\* settings.itemFilenames[item.key], generated and stored when missing.
filenameOf(itemKey) ==
  IF itemFilenames[itemKey] # "" THEN itemFilenames[itemKey] ELSE generateFilename(itemKey)

\* A skip test that looks at the version and the file only.
skipUnchangedOnVersion(item, filename, hasLocalCache) ==
  ~isItemChanged(item.key, item.version) /\ vault[filename].exists

\* The skip test in the loop of syncAll: the version is unchanged and the file is there,
\* then hasMissingImageAnnotations and hasLocalTagChanges are both asked, and the item is
\* skipped when neither holds.
skipUnchanged(item, filename, hasLocalCache) ==
  IF ~isItemChanged(item.key, item.version) /\ vault[filename].exists
  THEN LET hasMissingImages == hasMissingImageAnnotations(vault[filename], hasLocalCache)
           hasTagChanges == hasLocalTagChanges(vault[filename], item.key)
       IN ~hasMissingImages /\ ~hasTagChanges
  ELSE FALSE

\* A loop without its own catch: the exception of an item reaches the outer catch.
ItemErrorAborts(c, cl) ==
  Return(c, "failed", [cl EXCEPT !.result.errors = Append(@, error("Sync failed", ""))])

\* An exception while one item is processed: the catch inside the loop of syncAll
\* (the loop goes on), the outer catch of syncSingleItem (the call returns).
ItemError(c, cl) ==
  IF cl.op = "syncAll"
  THEN /\ call' = [call EXCEPT ![c] =
                     [cl EXCEPT !.result.errors =
                                   Append(@, error("Error processing item",
                                                   cl.items[cl.idx].key)),
                                !.pc = "item", !.idx = @ + 1,
                                !.cur = [NoCur EXCEPT !.hasLocalCache =
                                                         cl.cur.hasLocalCache]]]
       /\ UNCHANGED <<isSyncing, returned>>
  ELSE Return(c, "failed",
              [cl EXCEPT !.result.errors = Append(@, error("Sync failed", ""))])

\* A loop that takes the fetched items from the last to the first.
nextItemFromTheEnd(cl) == cl.items[Len(cl.items) + 1 - cl.idx]

\* for (const item of topLevelItems): the items in the order they were fetched.
nextItem(cl) == cl.items[cl.idx]

\* syncAll, one iteration of the loop up to the read of the existing note: filename,
\* file lookup, version check and, for an unchanged item with a file, the two side
\* conditions; then buildSyncData (the children, annotations and bibliography requests),
\* which may throw. hasLocalCache is whether settings.zoteroCacheDirs has an entry for
\* this host.
ProcessItem(c) ==
  /\ call[c].pc = "item" /\ call[c].op = "syncAll"
  /\ call[c].idx <= Len(call[c].items)
  /\ \E hasLocalCache \in BOOLEAN, built \in BOOLEAN :
       LET cl == call[c]
           item == nextItem(cl)
           filename == filenameOf(item.key)
           fileExists == vault[filename].exists
           skip == skipUnchanged(item, filename, hasLocalCache)
           asked == [NoCur EXCEPT !.hasLocalCache = hasLocalCache]
           picked == [cl EXCEPT !.done.processed = @ \cup {item.key}, !.cur = asked]
       IN /\ itemFilenames' = [itemFilenames EXCEPT ![item.key] = filename]
          /\ IF skip
             THEN /\ call' = [call EXCEPT ![c] =
                                [cl EXCEPT !.result.skipped = @ + 1, !.idx = @ + 1,
                                           !.cur = asked,
                                           !.done.skipped = @ \cup {item.key}]]
                  /\ UNCHANGED <<isSyncing, returned>>
             ELSE IF ~built
             THEN ItemError(c, picked)
             ELSE /\ call' = [call EXCEPT ![c] =
                        [picked EXCEPT
                           !.pc = "tags",
                           !.cur = [asked EXCEPT !.filename = filename,
                                                 !.fileExists = fileExists],
                           !.done.createdNew =
                              IF ~fileExists /\ itemVersions[item.key] = NoVersion
                              THEN @ \cup {item.key} ELSE @]]
                  /\ UNCHANGED <<isSyncing, returned>>
  /\ UNCHANGED <<itemVersions, lastSyncVersion, lastSyncedTags, vault, notedTags, req,
                 remote, remoteVersion, reg, ops>>

\* A fetchItem that answers with the item as the plugin last stored it.
fetchItemFromBaseline(itemKey) ==
  [key |-> itemKey, version |-> itemVersions[itemKey], tags |-> remote[itemKey].tags]

\* fetchItem(itemKey): the item of that key as the library holds it now.
fetchItem(itemKey) ==
  [key |-> itemKey, version |-> remote[itemKey].version, tags |-> remote[itemKey].tags]

\* syncSingleItem: fetchCollections and fetchItem, then the filename and buildSyncData.
FetchItem(c) ==
  /\ call[c].pc = "fetch" /\ call[c].op = "syncSingleItem"
  /\ \E ok \in BOOLEAN, found \in BOOLEAN, built \in BOOLEAN :
       LET cl == call[c]
           itemKey == cl.items[1].key
           item == fetchItem(itemKey)
           picked == [cl EXCEPT !.items = <<item>>, !.idx = 1,
                                !.done.delivered = {itemKey},
                                !.done.processed = {itemKey}]
       IN IF ~ok
          THEN /\ Return(c, "failed",
                         [cl EXCEPT !.result.errors = Append(@, error("Sync failed", ""))])
               /\ UNCHANGED itemFilenames
          ELSE IF ~found
          THEN /\ Return(c, "notfound",
                         [cl EXCEPT !.result.errors =
                                       Append(@, error("Item not found", itemKey))])
               /\ UNCHANGED itemFilenames
          ELSE /\ itemFilenames' = [itemFilenames EXCEPT ![itemKey] = filenameOf(itemKey)]
               /\ IF ~built
                  THEN ItemError(c, picked)
                  ELSE /\ call' = [call EXCEPT ![c] =
                             [picked EXCEPT !.pc = "tags",
                                            !.cur = [NoCur EXCEPT
                                                       !.filename = filenameOf(itemKey)]]]
                       /\ UNCHANGED <<isSyncing, returned>>
  /\ UNCHANGED <<itemVersions, lastSyncVersion, lastSyncedTags, vault, notedTags, req, remote,
                 remoteVersion, reg, ops>>

\* patchItemTags with If-Unmodified-Since-Version: item.version.
patchAccepted(item) == remote[item.key].version <= item.version

\* A patchItemTags that lets the error of a rejected request escape.
pushThrowsOnReject(attempted, accepted) == attempted /\ ~accepted

\* Whether patchItemTags throws: its catch turns every error of the request into the
\* return value false, which pushTagsToZotero does not look at.
pushThrows(attempted, accepted) == FALSE

\* A merge that leaves settings.lastSyncedTags to be stored after the note is written.
lastSyncedTagsDeferred(item, r) == lastSyncedTags

\* this.settings.lastSyncedTags[item.key] = [...merged], the last assignment of
\* syncTagsTwoWay on each of its paths.
lastSyncedTagsAfter(item, r) ==
  [lastSyncedTags EXCEPT ![item.key] = SomeTags(r.lastSyncedTags)]

\* The read of the existing note and syncTagsTwoWay(item, existingContent), with the
\* push of pushTagsToZotero accepted or rejected by the remote.
SyncTags(c) ==
  /\ call[c].pc = "tags"
  /\ LET cl == call[c]
         item == cl.items[cl.idx]
         fileExists == IF cl.op = "syncAll" THEN cl.cur.fileExists
                       ELSE vault[cl.cur.filename].exists
         existingContent == IF fileExists THEN vault[cl.cur.filename] ELSE NoFile
         r == syncTagsTwoWay(item.tags, existingContent, lastSyncedTags[item.key])
     IN \E accepted \in BOOLEAN :
          /\ accepted => r.push /\ patchAccepted(item)
          /\ IF accepted
             THEN /\ remoteVersion' = remoteVersion + 1
                  /\ remote' = [remote EXCEPT ![item.key].version = remoteVersion + 1,
                                                 ![item.key].tags = r.payload]
             ELSE UNCHANGED <<remote, remoteVersion>>
          /\ IF pushThrows(r.push, accepted)
             THEN /\ ItemError(c, [cl EXCEPT !.done.rejected = @ \cup {item.key}])
                  /\ UNCHANGED lastSyncedTags
             ELSE /\ lastSyncedTags' = lastSyncedTagsAfter(item, r)
                  /\ UNCHANGED <<isSyncing, returned>>
                  /\ call' = [call EXCEPT ![c] =
                                [cl EXCEPT !.pc = "write",
                                           !.cur.fileExists = fileExists,
                                           !.cur.existingContent = existingContent,
                                           !.cur.mergedTags = r.merged,
                                           !.cur.merge =
                                              [ran |-> TRUE,
                                               zoteroTags |-> zoteroTagsOf(item.tags),
                                               hadContent |-> existingContent.exists,
                                               fmTags |-> parseFrontmatterTags(existingContent),
                                               lastSynced |-> lastSyncedTags[item.key],
                                               push |-> r.push, payload |-> r.payload],
                                           !.done.createdNew =
                                              IF /\ cl.op = "syncSingleItem" /\ ~fileExists
                                                 /\ itemVersions[item.key] = NoVersion
                                              THEN @ \cup {item.key} ELSE @,
                                           !.done.pushed = IF accepted THEN @ \cup {item.key} ELSE @,
                                           !.done.rejected = IF r.push /\ ~accepted
                                                             THEN @ \cup {item.key} ELSE @]]
  /\ UNCHANGED <<itemVersions, lastSyncVersion, itemFilenames, vault, notedTags, req, reg, ops>>

\* setItemVersion called before the write is known to have succeeded.
versionsAfterEager(written, item) == [itemVersions EXCEPT ![item.key] = item.version]

\* setItemVersion(item.key, item.version) is the last statement of the try block of an
\* item: it runs when neither the render nor the write has thrown.
versionsAfter(written, item) ==
  IF written THEN [itemVersions EXCEPT ![item.key] = item.version] ELSE itemVersions

\* A count that books every written note as created.
resultAfterWriteAlwaysCreated(result, fileExists) ==
  [result EXCEPT !.created = @ + 1]

\* result.updated++ after vault.modify, result.created++ after vault.create.
resultAfterWrite(result, fileExists) ==
  IF fileExists THEN [result EXCEPT !.updated = @ + 1]
  ELSE [result EXCEPT !.created = @ + 1]

\* renderContent, then vault.modify / vault.create, then setItemVersion.
WriteNote(c) ==
  /\ call[c].pc = "write"
  /\ LET cl == call[c]
         item == cl.items[cl.idx]
         filename == cl.cur.filename
         content == renderContent(item, cl.cur.mergedTags, cl.cur.templatePath)
         merged == [content EXCEPT !.body =
                      renderWithPreservedComments(cl.cur.existingContent.body, @)]
     IN \E ok \in BOOLEAN :
          \* vault.create throws when the path has come to exist meanwhile
          /\ ok => (cl.cur.fileExists \/ ~vault[filename].exists)
          /\ itemVersions' = versionsAfter(ok, item)
          /\ IF ok
             THEN /\ vault' = [vault EXCEPT ![filename] =
                                IF cl.cur.fileExists /\ cl.cur.preserveUserContent
                                THEN merged ELSE content]
                  /\ notedTags' = [notedTags EXCEPT ![item.key] =
                                     @ \cup normSet(cl.cur.mergedTags)]
                  /\ call' = [call EXCEPT ![c] =
                        [cl EXCEPT !.result = resultAfterWrite(@, cl.cur.fileExists),
                                   !.done.written = @ \cup {item.key},
                                   !.done.createdNew = IF cl.cur.fileExists
                                                       THEN @ \ {item.key} ELSE @,
                                   !.cur = NoCur,
                                   !.idx = @ + 1,
                                   !.pc = IF cl.op = "syncAll" THEN "item" ELSE "release"]]
                  /\ UNCHANGED <<isSyncing, returned>>
             ELSE /\ ItemError(c, [cl EXCEPT !.done.failedWrite = @ \cup {item.key},
                                             !.done.createdNew = @ \ {item.key}])
                  /\ UNCHANGED <<vault, notedTags>>
  /\ UNCHANGED <<lastSyncVersion, lastSyncedTags, itemFilenames, remote, remoteVersion, reg,
                 ops, req>>

\* A loop that can be left at any item.
loopLeftEarly(cl) == TRUE

\* for (const item of topLevelItems) has gone through every item.
loopDone(cl) == cl.idx > Len(cl.items)

\* syncAll after the loop: setLibraryVersion(libraryVersion) when libraryVersion > 0.
SetLibraryVersion(c) ==
  /\ call[c].pc = "item" /\ call[c].op = "syncAll"
  /\ loopDone(call[c])
  /\ IF call[c].libraryVersion > 0
     THEN /\ lastSyncVersion' = call[c].libraryVersion
          /\ call' = [call EXCEPT ![c].pc = "release"]
          /\ UNCHANGED <<isSyncing, returned>>
     ELSE /\ Return(c, "done", call[c])
          /\ UNCHANGED lastSyncVersion
  /\ UNCHANGED <<itemVersions, lastSyncedTags, itemFilenames, vault, notedTags, req, remote,
                 remoteVersion, reg, ops>>

\* finally { this.isSyncing = false } and return result, after the last save.
Release(c) ==
  /\ call[c].pc = "release"
  /\ Return(c, "done", call[c])
  /\ UNCHANGED <<settingsVars, vault, notedTags, req, remote, remoteVersion, reg, ops>>

\* ------------------------------------------------------- other operations

\* Something other than the running calls acted: the calls in flight and the last
\* result are no longer those of an undisturbed run.
Disturb ==
  /\ call' = [c \in Calls |->
                IF call[c].pc = "idle" THEN call[c]
                ELSE [call[c] EXCEPT !.clean = FALSE, !.pre = NoBaselines, !.prev = NoPrev]]
  /\ returned' = [returned EXCEPT !.clean = FALSE, !.done = NoDone, !.kept = NoKept,
                                  !.prev = NoPrev]

\* clearSyncCache(): versionTracker.clearAll() (and the collection cache).
clearSyncCache ==
  /\ Start
  /\ clearAll
  /\ call' = [c \in Calls |->
                IF call[c].pc = "idle" THEN call[c]
                ELSE [call[c] EXCEPT !.clean = FALSE, !.pre = NoBaselines,
                                     !.prev = NoPrev, !.cleared = TRUE]]
  /\ returned' = [NoReturn EXCEPT !.op = "clearSyncCache", !.how = "done",
                                  !.cleared = TRUE]
  /\ UNCHANGED <<isSyncing, lastSyncedTags, itemFilenames, vault, notedTags, req, remote, remoteVersion, reg>>

\* registerExistingNotes, phases 1 and 2: the notes of the folder that link to an item,
\* the filename (and tags) of those without a stored filename, up to fetchItemsByKeys.
\* The output folder is there once it holds a note.
noteOf(k) == CHOOSE f \in Files : vault[f].exists /\ vault[f].key = k

registerExistingNotes ==
  /\ Start
  /\ reg.pc = "idle"
  /\ LET noteKeys == {k \in Keys : \E f \in Files : vault[f].exists /\ vault[f].key = k}
         newKeys == {k \in noteKeys : itemFilenames[k] = ""}
         unsyncedKeys == {k \in noteKeys : itemVersions[k] = NoVersion \/ itemVersions[k] = 0}
     IN /\ noteKeys # {}
        /\ itemFilenames' = [k \in Keys |-> IF k \in newKeys THEN noteOf(k) ELSE itemFilenames[k]]
        /\ lastSyncedTags' = [k \in Keys |->
              IF k \in newKeys /\ parseFrontmatterTags(vault[noteOf(k)]) # <<>>
              THEN SomeTags(parseFrontmatterTags(vault[noteOf(k)]))
              ELSE lastSyncedTags[k]]
        /\ IF unsyncedKeys # {}
           THEN /\ reg' = [pc |-> "fetch", unsyncedKeys |-> unsyncedKeys]
                /\ UNCHANGED lastSyncVersion
           ELSE /\ lastSyncVersion' = 0
                /\ UNCHANGED reg
  /\ Disturb
  /\ UNCHANGED <<isSyncing, itemVersions, vault, notedTags, req, remote, remoteVersion>>

\* registerExistingNotes, phase 3 and the end: every item fetchItemsByKeys returned gets
\* itemVersions[key] = 0, then lastSyncVersion = 0.
RegisterFetched ==
  /\ reg.pc = "fetch"
  /\ \E ok \in BOOLEAN :
       IF ok
       THEN /\ itemVersions' = [k \in Keys |-> IF k \in reg.unsyncedKeys THEN 0
                                                ELSE itemVersions[k]]
            /\ lastSyncVersion' = 0
       ELSE UNCHANGED <<itemVersions, lastSyncVersion>>
  /\ reg' = IdleReg
  /\ Disturb
  /\ UNCHANGED <<isSyncing, lastSyncedTags, itemFilenames, vault, notedTags, req, remote, remoteVersion, ops>>

\* A Zotero user changes the tags of an item: the item and the library get a new version.
\* Edits are placed between syncs, not during one.
RemoteEdit ==
  /\ Start
  /\ ~isSyncing
  /\ \E k \in EditedKeys, t \in RemoteTagLists :
       /\ remote[k].tags # Append(t, syncTag)
       /\ remote' = [remote EXCEPT ![k].version = remoteVersion + 1,
                                     ![k].tags = Append(t, syncTag)]
  /\ remoteVersion' = remoteVersion + 1
  /\ Disturb
  /\ UNCHANGED <<isSyncing, settingsVars, vault, notedTags, req, reg>>

\* A Zotero user takes the sync tag off an item: fetchItemsByTag no longer returns it.
RemoteUntag ==
  /\ Start
  /\ ~isSyncing
  /\ \E k \in EditedKeys :
       /\ hasTag(remote[k].tags, syncTag)
       /\ remote' = [remote EXCEPT ![k].version = remoteVersion + 1,
                                     ![k].tags = zoteroTagsOf(remote[k].tags)]
  /\ remoteVersion' = remoteVersion + 1
  /\ Disturb
  /\ UNCHANGED <<isSyncing, settingsVars, vault, notedTags, req, reg>>

\* A vault user rewrites the tags: block of a note, between syncs.
NoteEdit ==
  /\ Start
  /\ ~isSyncing
  /\ \E f \in {generateFilename(k) : k \in EditedKeys}, t \in NoteTagLists :
       /\ vault[f].exists
       /\ vault[f].tags # t
       /\ vault' = [vault EXCEPT ![f].tags = t]
  /\ Disturb
  /\ UNCHANGED <<isSyncing, settingsVars, notedTags, req, remote, remoteVersion, reg>>

Next ==
  \/ \E c \in Calls : syncAll(c)
  \/ \E c \in Calls : syncSingleItem(c)
  \/ \E c \in Calls : FetchItems(c)
  \/ \E c \in Calls : ProcessItem(c)
  \/ \E c \in Calls : FetchItem(c)
  \/ \E c \in Calls : SyncTags(c)
  \/ \E c \in Calls : WriteNote(c)
  \/ \E c \in Calls : SetLibraryVersion(c)
  \/ \E c \in Calls : Release(c)
  \/ clearSyncCache
  \/ registerExistingNotes
  \/ RegisterFetched
  \/ RemoteEdit
  \/ RemoteUntag
  \/ NoteEdit

Spec == Init /\ [][Next]_vars

\* The next step of a call that is under way, the tag merge apart: every await of
\* syncAll and syncSingleItem settles (a request answers or fails, a vault operation
\* returns or throws).
Settle ==
  \E c \in Calls :
     \/ FetchItems(c) \/ ProcessItem(c) \/ FetchItem(c)
     \/ WriteNote(c) \/ SetLibraryVersion(c) \/ Release(c)

\* The same for the tag merge, which can always take its step: no call stays in
\* syncTagsTwoWay for ever.
SettleTags == []<>(\A c \in Calls : call[c].pc # "tags")

\* The program with every await settling.
FairSpec == Spec /\ WF_vars(Settle) /\ SettleTags

\* ------------------------------------------------ the tag merge on its own

\* Longest lists of Zotero tags, of note tags and of last-synced tags the merge is
\* applied to.
MaxZoteroTags == 2
MaxNoteTags == 3
MaxSyncedTags == 2

\* The tags the lists are drawn from: plain tags, a tag differing from another by letter
\* case only, and a tag in its hyphen and in its space form.
MergeTags == <<<<"a">>, <<"b">>, <<"c">>, <<"A">>, <<"x", "-", "y">>, <<"x", " ", "y">>>>

RECURSIVE pick(_, _)
pick(S, i) ==
  IF i > Len(MergeTags) THEN <<>>
  ELSE IF i \in S THEN <<MergeTags[i]>> \o pick(S, i + 1)
       ELSE pick(S, i + 1)

\* The lists of at most n tags, in the order of MergeTags.
tagLists(n) == {pick(S, 1) : S \in {T \in SUBSET (1..Len(MergeTags)) : Cardinality(T) <= n}}

\* syncAll has item K1 in hand, just before it reads the note and calls syncTagsTwoWay:
\* any tags on the item, a note with any tags or no note, any last-synced tags or none.
InitMerge ==
  /\ isSyncing = TRUE
  /\ remoteVersion = 1
  /\ itemVersions = [k \in Keys |-> NoVersion]
  /\ lastSyncVersion = 0
  /\ itemFilenames = [k \in Keys |-> IF k = "K1" THEN citekeyOf(k) ELSE ""]
  /\ reg = IdleReg
  /\ returned = NoReturn
  /\ ops = 1
  /\ req = NoRequest
  /\ \E zoteroTags \in tagLists(MaxZoteroTags), hasNote \in BOOLEAN,
        fmTags \in tagLists(MaxNoteTags),
        lastSynced \in {NoTags} \cup {SomeTags(t) : t \in tagLists(MaxSyncedTags)} :
       /\ ~hasNote => fmTags = <<>>
       /\ remote = [k \in Keys |->
                      [version |-> 1,
                       tags |-> Append(IF k = "K1" THEN zoteroTags ELSE initialTags(k),
                                       syncTag),
                       citekey |-> citekeyOf(k)]]
       /\ vault = [f \in Files |->
                     IF hasNote /\ f = generateFilename("K1")
                     THEN [exists |-> TRUE, key |-> "K1", tags |-> fmTags,
                           body |-> render("")]
                     ELSE NoFile]
       /\ lastSyncedTags = [k \in Keys |-> IF k = "K1" THEN lastSynced ELSE NoTags]
       /\ notedTags = [k \in Keys |-> IF k = "K1" /\ hasNote /\ lastSynced.present
                                        THEN normSet(lastSynced.tags) ELSE {}]
       /\ call = [c \in Calls |->
                    IF c # 1 THEN IdleCall
                    ELSE [IdleCall EXCEPT
                            !.pc = "tags", !.op = "syncAll",
                            !.items = <<[key |-> "K1", version |-> 1,
                                         tags |-> Append(zoteroTags, syncTag)]>>,
                            !.idx = 1, !.libraryVersion = 1,
                            !.cur = [NoCur EXCEPT !.filename = generateFilename("K1"),
                                                  !.fileExists = hasNote],
                            !.done.delivered = {"K1"}, !.done.processed = {"K1"},
                            !.pre = [NoBaselines EXCEPT !.lastSyncedTags["K1"] = lastSynced]]]

NextMerge == \E c \in Calls : SyncTags(c)

MergeSpec == InitMerge /\ [][NextMerge]_vars

\* --------------------------------------------- the Comments section on its own

\* Most lines a user has written into the Comments section of a note.
MaxCommentLines == 2

\* The lines a user writes: text, and a heading of their own.
CommentLines == {"note a", "note b", "## Mine"}

\* The user's lines, each ended by a line break.
userText(lines) ==
  [i \in 1..(2 * Len(lines)) |-> IF i % 2 = 1 THEN lines[(i + 1) \div 2] ELSE newline]

\* The notes a sync finds: written by render() and filled in by the user, written
\* before the markers existed (a bare '## Comments' section, followed by another
\* section or at the end of the note), with the end marker deleted, or without a
\* Comments section.
ExistingBodies ==
  LET texts == {userText(lines) :
                  lines \in UNION {[1..m -> CommentLines] : m \in 0..MaxCommentLines}}
      tail == <<newline, "callouts", newline, newline, "## Reading notes", newline,
                "annotations">>
  IN UNION {
       { <<"frontmatter", newline, newline, beginComments, newline, commentsHeading,
           newline>> \o t \o <<newline, endComments>> \o tail,
         <<"frontmatter", newline, newline, beginComments, newline, commentsHeading,
           newline>> \o t \o tail,
         <<"frontmatter", newline, commentsHeading, newline>> \o t
           \o <<newline, "## Article information", newline, "callouts">>,
         <<"frontmatter", newline, commentsHeading, newline>> \o t } : t \in texts }
     \cup {<<"frontmatter", newline, commentsHeading>>, render("none")}

\* A sync has item K1 in hand, has read the existing note and merged the tags, and is
\* about to render and write: any existing note or none, any template, either value of
\* preserveUserContent.
InitComments ==
  /\ isSyncing = TRUE
  /\ remoteVersion = 1
  /\ remote = [k \in Keys |-> [version |-> 1, tags |-> Append(initialTags(k), syncTag),
                              citekey |-> citekeyOf(k)]]
  /\ itemVersions = [k \in Keys |-> NoVersion]
  /\ lastSyncVersion = 0
  /\ itemFilenames = [k \in Keys |-> IF k = "K1" THEN citekeyOf(k) ELSE ""]
  /\ lastSyncedTags = [k \in Keys |->
                         IF k = "K1" THEN SomeTags(mapSeq(formattedTag, initialTags(k)))
                         ELSE NoTags]
  /\ reg = IdleReg
  /\ returned = NoReturn
  /\ ops = 1
  /\ req = NoRequest
  /\ \E hasNote \in BOOLEAN, body \in ExistingBodies, templatePath \in Templates,
        preserveUserContent \in BOOLEAN, op \in {"syncAll", "syncSingleItem"} :
       LET note == IF hasNote
                   THEN [exists |-> TRUE, key |-> "K1",
                         tags |-> mapSeq(formattedTag, initialTags("K1")),
                         body |-> body]
                   ELSE NoFile
       IN /\ ~hasNote => body = render("none")
          /\ vault = [f \in Files |-> IF f = generateFilename("K1") THEN note ELSE NoFile]
          /\ notedTags = [k \in Keys |-> IF k = "K1" /\ hasNote
                                           THEN normSet(initialTags(k)) ELSE {}]
          /\ call = [c \in Calls |->
                       IF c # 1 THEN IdleCall
                       ELSE [IdleCall EXCEPT
                               !.pc = "write", !.op = op,
                               !.items = <<[key |-> "K1", version |-> 1,
                                            tags |-> remote["K1"].tags]>>,
                               !.idx = 1, !.libraryVersion = 1,
                               !.cur = [NoCur EXCEPT
                                          !.filename = generateFilename("K1"),
                                          !.fileExists = hasNote,
                                          !.existingContent = note,
                                          !.mergedTags = zoteroTagsOf(remote["K1"].tags),
                                          !.templatePath = templatePath,
                                          !.preserveUserContent = preserveUserContent],
                               !.done.delivered = {"K1"}, !.done.processed = {"K1"}]]

NextComments == \E c \in Calls : WriteNote(c)

CommentsSpec == InitComments /\ [][NextComments]_vars

\* ------------------------------------------ items with the same citation key

\* A library whose items all carry one citation key, before its first sync.
InitCollide ==
  /\ isSyncing = FALSE
  /\ \E ck \in Citekeys :
       remote = [k \in Keys |-> [version |-> 1, tags |-> Append(initialTags(k), syncTag),
                                 citekey |-> ck]]
  /\ remoteVersion = 1
  /\ itemVersions = [k \in Keys |-> NoVersion]
  /\ lastSyncVersion = 0
  /\ lastSyncedTags = [k \in Keys |-> NoTags]
  /\ itemFilenames = [k \in Keys |-> ""]
  /\ vault = [f \in Files |-> NoFile]
  /\ notedTags = [k \in Keys |-> {}]
  /\ call = [c \in Calls |-> IdleCall]
  /\ reg = IdleReg
  /\ returned = NoReturn
  /\ ops = 0
  /\ req = NoRequest

CollideSpec == InitCollide /\ [][Next]_vars

\* ------------------------------------------------- the plugin stops and restarts

\* The process stops while a syncAll is under way and the plugin is loaded again: the
\* settings are those of the last saveSettings (every assignment syncAll makes to them is
\* followed by one), the notes and the library are as they were left, and the new
\* SyncManager starts with isSyncing = false and no call.
Crash ==
  /\ Start
  /\ reg.pc = "idle"
  /\ \E c \in Calls :
       /\ call[c].op = "syncAll" /\ call[c].pc \in {"item", "tags", "write", "release"}
       /\ returned' = [NoReturn EXCEPT !.op = "syncAll", !.how = "stopped",
                                       !.result = call[c].result,
                                       !.done = [call[c].done EXCEPT !.valid = TRUE],
                                       !.clean = call[c].clean,
                                       !.kept = keptSince(call[c].pre),
                                       !.prev = call[c].prev,
                                       !.cleared = call[c].cleared]
  /\ call' = [c \in Calls |-> IdleCall]
  /\ isSyncing' = FALSE
  /\ UNCHANGED <<settingsVars, vault, notedTags, req, remote, remoteVersion, reg>>

NextCrash == Next \/ Crash

CrashSpec == Init /\ [][NextCrash]_vars

\* --------------------------------------- the sync tag among the tags of a note

\* Tag lists of a note whose user has also written the sync tag into the tags: block.
DriftNoteTagLists == {<<>>, <<<<"a">>>>, <<syncTag>>, <<<<"x", "-", "y">>, syncTag>>}

\* A sync has item K1 in hand, just before it reads the note and calls syncTagsTwoWay.
InitDrift ==
  /\ isSyncing = TRUE
  /\ remoteVersion = 1
  /\ itemVersions = [k \in Keys |-> NoVersion]
  /\ lastSyncVersion = 0
  /\ itemFilenames = [k \in Keys |-> IF k = "K1" THEN citekeyOf(k) ELSE ""]
  /\ reg = IdleReg
  /\ returned = NoReturn
  /\ ops = 1
  /\ req = NoRequest
  /\ \E zoteroTags \in RemoteTagLists, hasNote \in BOOLEAN,
        fmTags \in DriftNoteTagLists,
        lastSynced \in {NoTags, SomeTags(<<>>), SomeTags(<<<<"x", "-", "y">>>>)},
        op \in {"syncAll", "syncSingleItem"} :
       /\ ~hasNote => fmTags = <<>>
       /\ remote = [k \in Keys |->
                      [version |-> 1,
                       tags |-> Append(IF k = "K1" THEN zoteroTags ELSE initialTags(k),
                                       syncTag),
                       citekey |-> citekeyOf(k)]]
       /\ vault = [f \in Files |->
                     IF hasNote /\ f = citekeyOf("K1")
                     THEN [exists |-> TRUE, key |-> "K1", tags |-> fmTags,
                           body |-> render("")]
                     ELSE NoFile]
       /\ lastSyncedTags = [k \in Keys |-> IF k = "K1" THEN lastSynced ELSE NoTags]
       /\ notedTags = [k \in Keys |-> IF k = "K1" /\ hasNote /\ lastSynced.present
                                        THEN normSet(lastSynced.tags) ELSE {}]
       /\ call = [c \in Calls |->
                    IF c # 1 THEN IdleCall
                    ELSE [IdleCall EXCEPT
                            !.pc = "tags", !.op = op,
                            !.items = <<[key |-> "K1", version |-> 1,
                                         tags |-> Append(zoteroTags, syncTag)]>>,
                            !.idx = 1, !.libraryVersion = 1,
                            !.cur = [NoCur EXCEPT !.filename = citekeyOf("K1"),
                                                  !.fileExists = hasNote],
                            !.done.delivered = {"K1"}, !.done.processed = {"K1"},
                            !.pre = [NoBaselines EXCEPT !.lastSyncedTags["K1"] = lastSynced]]]

NextDrift ==
  \E c \in Calls : SyncTags(c) \/ WriteNote(c) \/ SetLibraryVersion(c) \/ Release(c)

DriftSpec == InitDrift /\ [][NextDrift]_vars

\* ------------------------------------------------------------- properties

\* C1: at most one call of syncAll / syncSingleItem is running at any time, and
\* isSyncing is set exactly while one is; a call of either made while one is running
\* returns zero counts and the one message 'Sync already in progress', and changes no
\* item version, no last-synced tags, not the library version, no note, and neither
\* the flag nor the running call.
C1_SingleFlight ==
  /\ [](Cardinality({c \in Calls : call[c].pc # "idle"}) <= 1)
  /\ [](isSyncing <=> \E c \in Calls : call[c].pc # "idle")
  /\ [][(isSyncing /\ \E c \in Calls : syncAll(c) \/ syncSingleItem(c)) =>
          /\ returned'.result = [created |-> 0, updated |-> 0, skipped |-> 0,
                                 errors |-> <<error("Sync already in progress", "")>>]
          /\ UNCHANGED <<itemVersions, lastSyncedTags, lastSyncVersion, vault,
                         isSyncing, call>>]_vars

\* A call has been rejected while another one is still running.
C1_Witness ==
  /\ returned.how = "busy"
  /\ isSyncing
  /\ \E c \in Calls : call[c].pc \in {"item", "tags", "write"}

\* C2: when the render or the write of an item fails after its tag merge, in syncAll
\* or in syncSingleItem, the item's version entry is, while the call goes on and when
\* it returns, what it was when the call started (no entry stays no entry), as long as
\* nothing but the call itself acted meanwhile.
C2_CrashSafety ==
  /\ \A c \in Calls :
       (call[c].pc # "idle" /\ call[c].clean) =>
          \A k \in call[c].done.failedWrite :
             itemVersions[k] = call[c].pre.itemVersions[k]
  /\ (returned.clean /\ returned.done.valid) =>
        returned.done.failedWrite \subseteq returned.kept.versions

\* A call has returned after the write of one of its items failed.
C2_Witness ==
  /\ returned.clean /\ returned.done.valid
  /\ returned.done.failedWrite # {}
  /\ \A k \in returned.done.failedWrite : itemVersions[k] = NoVersion

\* C3: when the write of an item failed in one syncAll, the next syncAll processes that
\* item again, also when nothing changed between the two.
C3_RetryAfterFailedWrite ==
  (/\ returned.op = "syncAll" /\ returned.clean /\ returned.done.valid
   /\ returned.how \in {"done", "nothing"}
   /\ returned.prev.op = "syncAll" /\ returned.prev.clean
   /\ returned.prev.how = "done")
  => returned.prev.failedWrite \subseteq returned.done.processed

\* C4: in syncAll an exception while one item is processed is recorded with the key of
\* the item and the loop goes on: when the call returns every delivered item has been
\* skipped or taken into processing, the keys of the error list are exactly the items
\* taken into processing and not written, and the counts are those of the other items.
\* syncAll returns through its outer catch only when no item was delivered.
C4_PerItemIsolation ==
  LET r == returned
      errorKeys == {r.result.errors[i].key : i \in 1..Len(r.result.errors)}
  IN (r.op = "syncAll" /\ r.done.valid) =>
       /\ r.how = "failed" => r.done.delivered = {} /\ r.done.processed = {}
       /\ r.how = "done" =>
            /\ r.done.skipped \cup r.done.processed = r.done.delivered
            /\ errorKeys = r.done.processed \ r.done.written
            /\ \A i \in 1..Len(r.result.errors) :
                  r.result.errors[i].msg = "Error processing item"
            /\ r.result.created + r.result.updated = Cardinality(r.done.written)
            /\ r.result.skipped = Cardinality(r.done.skipped)

\* The first item of a syncAll failed and the second one was written.
C4_Witness ==
  /\ returned.op = "syncAll" /\ returned.how = "done" /\ returned.done.valid
  /\ Len(returned.result.errors) = 1
  /\ returned.result.errors[1].key = "K1"
  /\ "K2" \in returned.done.written
  /\ returned.result.created + returned.result.updated = 1

\* C5: the step that writes the note of an item sets the item's version entry to the
\* version of the item written, and no step lowers a version entry except clearAll.
C5_MonotonicItemVersion ==
  [][/\ \A c \in Calls :
          (call[c].pc = "write" /\ call'[c].done.written # call[c].done.written) =>
             itemVersions'[call[c].items[call[c].idx].key]
                = call[c].items[call[c].idx].version
     /\ (\E k \in Keys : itemVersions'[k] < itemVersions[k]) => clearAll]_vars

\* C6: a syncAll that follows a syncAll, with nothing but the two calls acting from the
\* start of the first to the return of the second, reports created = 0 and updated = 0
\* and leaves every item version, the library version and all last-synced tags as it
\* found them.
C6_Idempotence ==
  (/\ returned.op = "syncAll" /\ returned.clean /\ returned.done.valid
   /\ returned.prev.op = "syncAll" /\ returned.prev.clean
   /\ returned.prev.how \in {"done", "nothing"})
  => /\ returned.result.created = 0
     /\ returned.result.updated = 0
     /\ returned.kept = [versions |-> Keys, tags |-> Keys, cursor |-> TRUE]

\* C7 as stated: an item with no version entry and no note is created by a syncAll,
\* which sets its version entry to the item's version and its last-synced tags to the
\* item's tags; a second syncAll with the item unchanged counts it as skipped, does not
\* write its note and changes neither entry.
C7_AsStated ==
  \A k \in Keys :
    /\ (/\ ~isSyncing /\ returned.op = "syncAll" /\ returned.clean
        /\ returned.done.valid /\ k \in returned.done.createdNew)
       => /\ k \in returned.done.written
          /\ returned.result.created >= Cardinality(returned.done.createdNew)
          /\ itemVersions[k] = remote[k].version
          /\ lastSyncedTags[k] = SomeTags(zoteroTagsOf(remote[k].tags))
    /\ (/\ returned.op = "syncAll" /\ returned.clean /\ returned.done.valid
        /\ returned.how \in {"done", "nothing"}
        /\ returned.prev.op = "syncAll" /\ returned.prev.clean
        /\ returned.prev.how = "done" /\ k \in returned.prev.createdNew)
       => /\ k \in returned.done.skipped
          /\ k \notin returned.done.written
          /\ k \in returned.kept.versions /\ k \in returned.kept.tags

\* C7: an item with no version entry and no note is created by a syncAll, which sets
\* its version entry to the item's version and its last-synced tags to the item's tags
\* with whitespace replaced by hyphens; a second syncAll with the item unchanged is not
\* delivered the item: it neither skips nor processes it, does not write its note and
\* changes neither entry.
C7_EndToEnd ==
  \A k \in Keys :
    /\ (/\ ~isSyncing /\ returned.op = "syncAll" /\ returned.clean
        /\ returned.done.valid /\ k \in returned.done.createdNew)
       => /\ k \in returned.done.written
          /\ returned.result.created >= Cardinality(returned.done.createdNew)
          /\ itemVersions[k] = remote[k].version
          /\ lastSyncedTags[k] =
                SomeTags(mapSeq(formattedTag, zoteroTagsOf(remote[k].tags)))
    /\ (/\ returned.op = "syncAll" /\ returned.clean /\ returned.done.valid
        /\ returned.how \in {"done", "nothing"}
        /\ returned.prev.op = "syncAll" /\ returned.prev.clean
        /\ returned.prev.how = "done" /\ k \in returned.prev.createdNew)
       => /\ k \notin returned.done.delivered
          /\ k \notin returned.done.skipped
          /\ k \notin returned.done.processed
          /\ k \notin returned.done.written
          /\ k \in returned.kept.versions /\ k \in returned.kept.tags

\* A syncAll has returned 'nothing changed' after the syncAll before it created the
\* note of K1, whose tag has a space.
C7_Witness ==
  /\ returned.op = "syncAll" /\ returned.clean /\ returned.done.valid
  /\ returned.how = "nothing"
  /\ returned.prev.op = "syncAll" /\ returned.prev.clean /\ returned.prev.how = "done"
  /\ "K1" \in returned.prev.createdNew
  /\ lastSyncedTags["K1"] = SomeTags(<<<<"x", "-", "y">>>>)
  /\ itemVersions["K1"] = 1

C10_PushDecision ==
  \A c \in Calls :
    (call[c].pc = "write" /\ call[c].cur.merge.ran) =>
       (call[c].cur.merge.push
          <=> normSet(call[c].cur.mergedTags) # normSet(call[c].cur.merge.zoteroTags))

\* C11: every tag list patchItemTags is called with by the tag merge contains the sync
\* tag, and no step of the tag merge takes the sync tag from an item that carries it.
C11_SyncTagPreserved ==
  /\ [](\A c \in Calls :
          (call[c].pc = "write" /\ call[c].cur.merge.ran /\ call[c].cur.merge.push)
             => hasTag(call[c].cur.merge.payload, syncTag))
  /\ [][\A k \in Keys :
          ((\E c \in Calls : SyncTags(c)) /\ hasTag(remote[k].tags, syncTag))
             => hasTag(remote'[k].tags, syncTag)]_vars

\* A push has been accepted: the item carries the pushed tags, the sync tag among them.
C11_Witness ==
  \E c \in Calls :
    /\ call[c].pc = "write" /\ call[c].cur.merge.push
    /\ "K1" \in call[c].done.pushed
    /\ remote["K1"].tags = call[c].cur.merge.payload
    /\ remote["K1"].tags # call[c].items[call[c].idx].tags

\* C12: when the remote rejects the push of an item's tags, the processing of the item
\* goes on to the write with no error recorded for it and the last-synced tags set to
\* the merged list; the write, when it succeeds, puts the merged tags into the note,
\* sets the item's version entry to the item's version and counts the item once as
\* created or updated without adding an error; and the call does not run the tag merge
\* of that item a second time.
C12_RejectedPushNonFatal ==
  /\ [](\A c \in Calls : \A k \in call[c].done.rejected :
          LET cl == call[c]
              inHand == cl.pc = "write" /\ cl.items[cl.idx].key = k
          IN /\ inHand \/ k \in cl.done.written \/ k \in cl.done.failedWrite
             /\ inHand => lastSyncedTags[k] = SomeTags(cl.cur.mergedTags)
             /\ k \notin cl.done.failedWrite =>
                  \A i \in 1..Len(cl.result.errors) : cl.result.errors[i].key # k)
  /\ []((returned.done.valid /\ returned.how = "done") =>
          \A k \in returned.done.rejected \ returned.done.failedWrite :
             /\ k \in returned.done.written
             /\ \A i \in 1..Len(returned.result.errors) : returned.result.errors[i].key # k
             /\ returned.op = "syncSingleItem" =>
                   /\ returned.result.errors = <<>>
                   /\ returned.result.created + returned.result.updated = 1)
  /\ [][\A c \in Calls :
          LET cl == call[c]
              k == cl.items[cl.idx].key
          IN /\ (/\ cl.pc = "write" /\ k \in cl.done.rejected
                 /\ k \in call'[c].done.written)
                => /\ vault'[cl.cur.filename].tags =
                        renderFrontmatterTags(Append(cl.cur.mergedTags, syncTag))
                   /\ itemVersions'[k] = cl.items[cl.idx].version
                   /\ call'[c].result.created + call'[c].result.updated
                        = cl.result.created + cl.result.updated + 1
                   /\ call'[c].result.errors = cl.result.errors
             /\ (cl.pc = "tags" /\ SyncTags(c))
                => k \notin cl.done.rejected \cup cl.done.pushed]_vars

\* A sync of K1 has returned after the remote rejected the push of its tags: the note
\* was updated and no error is reported.
C12_Witness ==
  /\ returned.done.valid /\ returned.how = "done"
  /\ "K1" \in returned.done.rejected
  /\ "K1" \in returned.done.written
  /\ returned.result.updated = 1
  /\ returned.result.errors = <<>>
  /\ itemVersions["K1"] = remote["K1"].version
  /\ lastSyncedTags["K1"] = SomeTags(vault[generateFilename("K1")].tags)

\* C13: when the push of an item's tags was rejected in one syncAll and its note was
\* written, and the tags of the note and of the item in Zotero still differ as sets of
\* normalized tags, the next syncAll, with nothing else acting, calls patchItemTags for
\* that item again.
C13_PushRetried ==
  \A k \in Keys :
    (/\ ~isSyncing
     /\ returned.op = "syncAll" /\ returned.clean /\ returned.done.valid
     /\ returned.how \in {"done", "nothing"}
     /\ returned.prev.op = "syncAll" /\ returned.prev.clean
     /\ returned.prev.how = "done" /\ k \in returned.prev.rejected
     /\ normSet(vault[generateFilename(k)].tags) # normSet(zoteroTagsOf(remote[k].tags)))
    => k \in returned.done.pushed \cup returned.done.rejected

\* C14: the last-synced tags of an item change only in the tag merge of a running sync
\* that has the item in hand; the write that follows leaves them equal, by normalized
\* form, to the merged tags it puts into the note; and when that write fails they are
\* left as they were before the call.
C14_LastSyncedTagsWritten ==
  /\ [][\A k \in Keys :
          lastSyncedTags'[k] # lastSyncedTags[k] =>
             \E c \in Calls : /\ call[c].pc = "tags"
                              /\ call[c].items[call[c].idx].key = k
                              /\ SyncTags(c)]_vars
  /\ [][\A c \in Calls :
          LET cl == call[c]
              k == cl.items[cl.idx].key
          IN (cl.pc = "write" /\ k \in call'[c].done.written) =>
                /\ lastSyncedTags'[k].present
                /\ normSet(lastSyncedTags'[k].tags) = normSet(cl.cur.mergedTags)]_vars
  /\ []((returned.clean /\ returned.done.valid) =>
          returned.done.failedWrite \subseteq returned.kept.tags)

\* C15: a syncAll that ran undisturbed and without error leaves no item with an
\* unchanged version and an existing note whose tags: block is not equal, by normalized
\* form, to the item's last-synced tags: such an item has gone through the tag merge and
\* its note has been rewritten.
C15_LocalTagEditReprocessed ==
  \A k \in Keys :
    (/\ ~isSyncing
     /\ returned.op = "syncAll" /\ returned.clean /\ returned.done.valid
     /\ returned.how \in {"done", "nothing"}
     /\ returned.result.errors = <<>>)
    => ~(/\ itemVersions[k] = remote[k].version
         /\ vault[filenameOf(k)].exists
         /\ lastSyncedTags[k].present
         /\ ~tagsEqual(parseFrontmatterTags(vault[filenameOf(k)]),
                       lastSyncedTags[k].tags))

\* C16: in the loop of syncAll an item is skipped exactly when it has a stored version,
\* the stored version is not lower than the item's version, its note exists, the note
\* has no missing image that a local cache could supply, and the tags of the note equal
\* the last-synced tags; in every other case it is taken into processing.
C16_SkipDecision ==
  [][\A c \in Calls :
       ProcessItem(c) =>
         LET item == call[c].items[call[c].idx]
             note == vault[filenameOf(item.key)]
             hasLocalCache == call'[c].cur.hasLocalCache
             decided ==
               /\ itemVersions[item.key] # NoVersion
               /\ itemVersions[item.key] >= item.version
               /\ note.exists
               /\ ~(hasLocalCache /\ hasAreaHighlight(note.key))
               /\ ~(/\ lastSyncedTags[item.key].present
                    /\ normSet(note.tags) # normSet(lastSyncedTags[item.key].tags))
         IN /\ item.key \in call'[c].done.skipped <=> decided
            /\ item.key \in call'[c].done.processed <=> ~decided
            /\ decided => call'[c].result.skipped = call[c].result.skipped + 1]_vars

\* One syncAll has skipped an item and taken another into processing although its
\* version was unchanged and its note was there.
C16_Witness ==
  \E c \in Calls :
    /\ call[c].op = "syncAll"
    /\ call[c].done.skipped # {}
    /\ \E k \in call[c].done.processed :
         /\ call[c].pre.itemVersions[k] = remote[k].version
         /\ k \notin call[c].done.createdNew

\* C17: when clearSyncCache has run, no item has a stored version, the library version
\* stored is 0, and no item has last-synced tags.
C17_ClearResetsAll ==
  [][clearSyncCache =>
       /\ \A k \in Keys : itemVersions'[k] = NoVersion
       /\ lastSyncVersion' = 0
       /\ \A k \in Keys : ~lastSyncedTags'[k].present]_vars

\* C18: the first syncAll invoked after clearSyncCache has returned (straight after it,
\* or after the end of the call that was running when the cache was cleared) fetches
\* without a since version and skips no item.
C18_FullResyncAfterClear ==
  \A c \in Calls :
    (call[c].op = "syncAll" /\ call[c].prev.cleared) =>
       /\ call[c].pc = "fetch" => lastSyncVersion = 0
       /\ call[c].done.skipped = {}

\* C19: no step of a sync, of clearSyncCache or of registerExistingNotes removes a note:
\* a file that exists still exists after every step, also when its item has lost the
\* sync tag.
C19_NoDeletion ==
  [][\A f \in Files : vault[f].exists => vault'[f].exists]_vars

\* K1 has lost the sync tag, a syncAll has since run undisturbed to its end, and the
\* note of K1 is still there.
C19_Witness ==
  /\ ~hasTag(remote["K1"].tags, syncTag)
  /\ ~isSyncing
  /\ returned.op = "syncAll" /\ returned.clean /\ returned.done.valid
  /\ returned.how \in {"done", "nothing"}
  /\ vault[generateFilename("K1")].exists

\* C20: when an existing note is updated with preserveUserContent on, the stretch from
\* the begin marker to the end marker of the written note is that stretch of the note as
\* read; a '## Comments' section without markers (the heading and all that follows it up
\* to '## Article information' or the end of the note) is written once between one begin
\* and one end marker; and updating the written note again leaves the stretch and the
\* number of markers as they are.
C20_CommentsPreserved ==
  [][\A c \in Calls :
       LET cl == call[c]
           old == cl.cur.existingContent.body
           new == vault'[cl.cur.filename].body
           count(d, piece) == Cardinality({i \in 1..Len(d) : d[i] = piece})
           first(d, piece) == CHOOSE i \in 1..Len(d) :
                                 d[i] = piece /\ \A j \in 1..(i - 1) : d[j] # piece
           marked(d) == /\ count(d, beginComments) > 0
                        /\ \E i \in first(d, beginComments)..Len(d) : d[i] = endComments
           last(d) == CHOOSE i \in first(d, beginComments)..Len(d) :
                         /\ d[i] = endComments
                         /\ \A j \in first(d, beginComments)..(i - 1) : d[j] # endComments
           span(d) == SubSeq(d, first(d, beginComments), last(d))
           sectionEnd(d) ==
             LET h == first(d, commentsHeading)
                 ends == {i \in (h + 1)..(Len(d) - 1) :
                            d[i] = newline /\ d[i + 1] = "## Article information"}
             IN IF ends = {} THEN Len(d) ELSE CHOOSE i \in ends : \A j \in ends : i <= j
           section(d) == SubSeq(d, first(d, commentsHeading), sectionEnd(d))
       IN (/\ cl.pc = "write" /\ cl.cur.fileExists /\ cl.cur.preserveUserContent
           /\ cl.items[cl.idx].key \in call'[c].done.written)
          => /\ marked(old) => marked(new) /\ span(new) = span(old)
             /\ (~marked(old) /\ count(old, commentsHeading) > 0)
                  => /\ marked(new)
                     /\ count(new, beginComments) = 1 /\ count(new, endComments) = 1
                     /\ span(new) = <<beginComments, newline>> \o section(old)
                                      \o <<newline, endComments>>
             /\ marked(new) =>
                  \A template \in Templates :
                     LET again == renderWithPreservedComments(new, render(template))
                     IN /\ marked(again) /\ span(again) = span(new)
                        /\ count(again, beginComments) = count(new, beginComments)
                        /\ count(again, endComments) = count(new, endComments)]_vars

\* C21: a syncAll that ends at the user id check or at a failed fetch has evaluated no
\* item, leaves every note, every stored version, the stored library version and the
\* last-synced tags as they are, and returns created = updated = skipped = 0 with the
\* single error 'Sync failed'.
C21_CycleAbort ==
  /\ [][\A c \in Calls :
          ((syncAll(c) \/ FetchItems(c)) /\ ~isSyncing' /\ returned'.how = "failed") =>
             /\ UNCHANGED <<settingsVars, vault>>
             /\ returned'.op = "syncAll"
             /\ returned'.result.created = 0 /\ returned'.result.updated = 0
             /\ returned'.result.skipped = 0
             /\ Len(returned'.result.errors) = 1
             /\ returned'.result.errors[1].msg = "Sync failed"
             /\ returned'.done.processed = {} /\ returned'.done.skipped = {}
             /\ returned'.done.written = {} /\ returned'.done.pushed = {}]_vars
  /\ []((returned.op = "syncAll" /\ returned.how = "failed"
           /\ returned.clean /\ returned.done.valid)
          => returned.kept = [versions |-> Keys, tags |-> Keys, cursor |-> TRUE])

\* A syncAll has failed at its fetch, undisturbed, while K1 had a version newer than
\* the stored library version and a note to update.
C21_Witness ==
  /\ returned.op = "syncAll" /\ returned.how = "failed"
  /\ returned.clean /\ returned.done.valid
  /\ returned.done.delivered = {}
  /\ lastSyncVersion > 0
  /\ remote["K1"].version > lastSyncVersion
  /\ vault[generateFilename("K1")].exists

\* C22: the fetch of syncAll asks for the items with the sync tag, only those written
\* after the stored library version when that is above 0; when it is above 0 and no item
\* comes back, syncAll returns at once with created = updated = skipped = 0 and no
\* error, and no stored version, last-synced tags, stored library version or note has
\* changed.
C22_NothingChanged ==
  /\ [][\A c \in Calls :
          FetchItems(c) =>
             LET tagged == {k \in Keys : hasTag(remote[k].tags, syncTag)}
                 changed == {k \in tagged : remote[k].version > lastSyncVersion}
             IN \/ ~isSyncing' /\ returned'.how = "failed"
                \/ /\ lastSyncVersion > 0 /\ changed = {}
                   /\ ~isSyncing' /\ returned'.how = "nothing"
                   /\ returned'.result = emptyResult
                   /\ returned'.done.processed = {} /\ returned'.done.skipped = {}
                   /\ UNCHANGED <<settingsVars, vault>>
                \/ /\ lastSyncVersion > 0 => changed # {}
                   /\ isSyncing' /\ call'[c].pc = "item"
                   /\ call'[c].done.delivered =
                        IF lastSyncVersion > 0 THEN changed ELSE tagged]_vars
  /\ []((returned.op = "syncAll" /\ returned.how = "nothing"
           /\ returned.clean /\ returned.done.valid)
          => returned.kept = [versions |-> Keys, tags |-> Keys, cursor |-> TRUE])

\* A syncAll has returned at 'Nothing changed', undisturbed, after an edit in Zotero had
\* been synced.
C22_Witness ==
  /\ returned.op = "syncAll" /\ returned.how = "nothing"
  /\ returned.clean /\ returned.done.valid
  /\ remoteVersion > 1 /\ lastSyncVersion = remoteVersion

\* C23: every syncAll and syncSingleItem that has set isSyncing resets it, however it
\* ends, and isSyncing is false whenever no call is under way, so that the guard at the
\* top of the next invocation lets it in.
C23_GuardReleased ==
  /\ isSyncing ~> ~isSyncing
  /\ []((\A c \in Calls : call[c].pc = "idle") => ~isSyncing)

\* A call is under way that was invoked after a call had ended in a failure or had not
\* found its item.
C23_Witness ==
  \E c \in Calls :
    /\ call[c].pc # "idle" /\ isSyncing
    /\ call[c].prev.how \in {"failed", "notfound"}

\* C24: the stored versions, the stored library version and the last-synced tags change
\* only in a step of the call that holds isSyncing: its tag merge, its write of a note,
\* or its setLibraryVersion.
C24_BaselinesOnlyInSync ==
  [][(\/ itemVersions' # itemVersions
      \/ lastSyncVersion' # lastSyncVersion
      \/ lastSyncedTags' # lastSyncedTags)
     => /\ isSyncing
        /\ \E c \in Calls : SyncTags(c) \/ WriteNote(c) \/ SetLibraryVersion(c)]_vars

C26_OneFilePerRecord ==
  /\ [](\A k1 \in Keys, k2 \in Keys :
          k1 # k2 /\ itemFilenames[k1] # "" => itemFilenames[k1] # itemFilenames[k2])
  /\ [][\A c \in Calls, f \in Files :
          WriteNote(c) /\ vault[f].exists /\ vault'[f] # vault[f]
            => vault[f].key = call[c].items[call[c].idx].key]_vars

\* C27: a syncAll that ran undisturbed and returned having changed nothing, after a
\* call in which no push was rejected, can be repeated any number of times to the same
\* effect, so by then the tags of every tagged item with a note, the tags: block of
\* that note and the item's last-synced tags are the same set of normalized tags.
C27_Convergence ==
  \A k \in Keys :
    (/\ ~isSyncing
     /\ returned.op = "syncAll" /\ returned.clean /\ returned.how = "nothing"
     /\ returned.prev.rejected = {}
     /\ hasTag(remote[k].tags, syncTag)
     /\ vault[filenameOf(k)].exists /\ lastSyncedTags[k].present)
    => /\ normSet(vault[filenameOf(k)].tags) = normSet(zoteroTagsOf(remote[k].tags))
       /\ normSet(lastSyncedTags[k].tags) = normSet(zoteroTagsOf(remote[k].tags))

\* C28: when the process stopped in the middle of an undisturbed syncAll and nothing was
\* edited since, the next syncAll, run undisturbed to its end, neither rewrites the note
\* nor pushes the tags of an item whose note the stopped call had written.
C28_CrashMidCycle ==
  \A k \in Keys :
    (/\ ~isSyncing
     /\ returned.op = "syncAll" /\ returned.clean /\ returned.done.valid
     /\ returned.how \in {"done", "nothing"}
     /\ returned.prev.op = "syncAll" /\ returned.prev.how = "stopped"
     /\ returned.prev.clean
     /\ k \in returned.prev.written)
    => /\ k \notin returned.done.written
       /\ k \notin returned.done.pushed \cup returned.done.rejected

\* C29: within the processing of one item, a note is written only by a call whose tag
\* merge for that item has run, with any push it called for already sent (accepted or
\* rejected) and the item's last-synced tags already set to the merged tags; and a sync
\* changes the version entry of an item only in the step that has written the item's
\* note, to the fetched version. (clearSyncCache and registerExistingNotes, which are
\* not part of an item's processing, are the other writers of version entries.)
C29_OrderInsideItem ==
  /\ [][\A c \in Calls :
          (WriteNote(c) /\ vault' # vault) =>
             LET cl == call[c]
                 k == cl.items[cl.idx].key
             IN /\ cl.cur.merge.ran
                /\ cl.cur.merge.push => k \in cl.done.pushed \cup cl.done.rejected
                /\ lastSyncedTags[k].present
                /\ normSet(lastSyncedTags[k].tags) = normSet(cl.cur.mergedTags)
                /\ normSet(vault'[cl.cur.filename].tags) = normSet(cl.cur.mergedTags)]_vars
  /\ [][\A k \in Keys :
          itemVersions'[k] # itemVersions[k] =>
             \/ clearSyncCache
             \/ RegisterFetched
             \/ \E c \in Calls :
                  /\ WriteNote(c)
                  /\ call[c].items[call[c].idx].key = k
                  /\ itemVersions'[k] = call[c].items[call[c].idx].version
                  /\ vault'[call[c].cur.filename].exists
                  /\ vault'[call[c].cur.filename].key = k
                  /\ k \in call'[c].done.written]_vars

\* A syncAll has pushed the merged tags of an item, then written its note and stored
\* its version, and has returned.
C29_Witness ==
  /\ returned.op = "syncAll" /\ returned.how = "done" /\ returned.done.valid
  /\ \E k \in returned.done.pushed \cap returned.done.written :
       /\ itemVersions[k] > 0
       /\ lastSyncedTags[k].present
       /\ normSet(lastSyncedTags[k].tags) = normSet(vault[filenameOf(k)].tags)

\* C30: a syncAll handles the fetched items one at a time in the order they were
\* delivered: the items it has finished (skipped, written or failed) are exactly those
\* before its position, the only item it can have in hand is the one at its position,
\* its position moves one item forward in the step that finishes that item and in no
\* other, and no two calls have an item in hand at once.
C30_Sequential ==
  /\ [](\A c \in Calls :
          LET cl == call[c]
              before == {cl.items[i].key : i \in 1..(cl.idx - 1)}
              failed == {cl.result.errors[i].key : i \in 1..Len(cl.result.errors)}
          IN (cl.op = "syncAll" /\ cl.pc \in {"item", "tags", "write"}) =>
                /\ cl.idx \in 1..(Len(cl.items) + 1)
                /\ cl.done.skipped \cup cl.done.written \cup failed = before
                /\ cl.done.processed \subseteq
                     before \cup (IF cl.pc = "item" THEN {} ELSE {cl.items[cl.idx].key})
                /\ cl.pc \in {"tags", "write"} =>
                     /\ cl.idx <= Len(cl.items)
                     /\ cl.items[cl.idx].key \in cl.done.processed
                     /\ cl.cur.filename = filenameOf(cl.items[cl.idx].key))
  /\ [](\A c1 \in Calls, c2 \in Calls :
          (call[c1].pc \in {"tags", "write"} /\ call[c2].pc \in {"tags", "write"})
            => c1 = c2)
  /\ [][\A c \in Calls :
          (call[c].op = "syncAll" /\ call'[c].op = "syncAll"
           /\ call[c].pc \in {"item", "tags", "write"}
           /\ call'[c].idx # call[c].idx) =>
             LET k == call[c].items[call[c].idx].key
                 failed == {call'[c].result.errors[i].key :
                              i \in 1..Len(call'[c].result.errors)}
             IN /\ call'[c].idx = call[c].idx + 1
                /\ call'[c].pc = "item"
                /\ call'[c].items = call[c].items
                /\ k \in call'[c].done.skipped \cup call'[c].done.written \cup failed]_vars

\* A syncAll that was delivered two items has finished the first and has the second in
\* hand, after its tag merge.
C30_Witness ==
  \E c \in Calls :
    /\ call[c].op = "syncAll" /\ call[c].pc = "write"
    /\ Len(call[c].items) = 2 /\ call[c].idx = 2
    /\ call[c].items[1].key \in call[c].done.written
    /\ call[c].items[2].key \in call[c].done.processed

\* C31: syncSingleItem never skips: once its item is fetched and built it goes through
\* the tag merge and the write; when it returns without error it has written the note
\* of its item and of no other, with created + updated = 1 and skipped = 0, and the
\* item's version entry is the version the library had for it at the fetch; and no step
\* of it changes lastSyncVersion, or the version entry, last-synced tags, filename or
\* note of another item.
C31_SingleItem ==
  /\ [](returned.op = "syncSingleItem" =>
          /\ returned.result.skipped = 0 /\ returned.done.skipped = {}
          /\ (returned.how = "done" /\ returned.done.valid) =>
                /\ returned.result.created + returned.result.updated = 1
                /\ returned.result.errors = <<>>
                /\ Cardinality(returned.done.delivered) = 1
                /\ returned.done.written = returned.done.delivered
                /\ returned.done.processed = returned.done.delivered)
  /\ [][\A c \in Calls :
          (call[c].op = "syncSingleItem" /\ FetchItem(c) /\ call'[c].pc # "idle") =>
             /\ call'[c].pc = "tags"
             /\ call'[c].items[1].key = call[c].items[1].key
             /\ call'[c].items[1].version = remote[call[c].items[1].key].version]_vars
  /\ [][\A c \in Calls :
          (call[c].op = "syncSingleItem" /\ WriteNote(c) /\ call'[c].pc # "idle") =>
             LET k == call[c].items[1].key
             IN /\ call[c].cur.merge.ran
                /\ call'[c].pc = "release"
                /\ itemVersions'[k] = call[c].items[1].version
                /\ vault'[call[c].cur.filename].exists
                /\ vault'[call[c].cur.filename].key = k]_vars
  /\ [][\A c \in Calls :
          (/\ call[c].op = "syncSingleItem"
           /\ FetchItem(c) \/ SyncTags(c) \/ WriteNote(c) \/ Release(c)) =>
             LET k == call[c].items[1].key
             IN /\ lastSyncVersion' = lastSyncVersion
                /\ \A o \in Keys \ {k} :
                     /\ itemVersions'[o] = itemVersions[o]
                     /\ lastSyncedTags'[o] = lastSyncedTags[o]
                     /\ itemFilenames'[o] = itemFilenames[o]
                /\ \A f \in Files \ {filenameOf(k)} : vault'[f] = vault[f]]_vars

\* A syncSingleItem of an item whose version entry was already the library's version,
\* with its note present, has returned after rewriting the note.
C31_Witness ==
  /\ returned.op = "syncSingleItem" /\ returned.how = "done"
  /\ returned.clean /\ returned.done.valid
  /\ returned.result.updated = 1
  /\ returned.done.delivered \subseteq returned.kept.versions
  /\ returned.kept.cursor

\* C32: a syncSingleItem whose fetchItem finds no item returns zero counts and one error
\* that names the key, in a step that changes no note, no version entry, no last-synced
\* tags, no filename and not lastSyncVersion, and that leaves isSyncing false.
C32_ItemNotFound ==
  /\ [][\A c \in Calls :
          (FetchItem(c) /\ returned'.how = "notfound" /\ call'[c].pc = "idle") =>
             /\ returned'.op = "syncSingleItem"
             /\ returned'.result.created = 0 /\ returned'.result.updated = 0
             /\ returned'.result.skipped = 0
             /\ Len(returned'.result.errors) = 1
             /\ returned'.result.errors[1].key = call[c].items[1].key
             /\ returned'.result.errors[1].msg = "Item not found"
             /\ returned'.done.written = {} /\ returned'.done.pushed = {}
             /\ UNCHANGED <<settingsVars, vault, remote, remoteVersion>>
             /\ ~isSyncing'
             /\ \A d \in Calls : call'[d].pc = "idle"]_vars
  /\ [](returned.how = "notfound" =>
          /\ returned.op = "syncSingleItem"
          /\ returned.clean => (/\ returned.kept.cursor
                                /\ returned.kept.versions = Keys
                                /\ returned.kept.tags = Keys))

\* A syncSingleItem of an item without a note has returned with the item not found.
C32_Witness ==
  /\ returned.op = "syncSingleItem" /\ returned.how = "notfound" /\ returned.clean
  /\ ~isSyncing
  /\ \A f \in Files : ~vault[f].exists
  /\ \A k \in Keys : itemFilenames[k] = ""

\* C33: a tag in the tags: block of an item's note that the item has never carried in
\* Zotero (the item is still at the version the library started with, and the tag is
\* not among the tags it started with) is still in the tags: block after any sync has
\* rewritten the note.
C33_LocalAdditionKept ==
  [][\A c \in Calls :
       (WriteNote(c) /\ vault' # vault) =>
          LET cl == call[c]
              k == cl.items[cl.idx].key
              f == cl.cur.filename
          IN (remote[k].version = 1 /\ vault[f].exists /\ vault[f].key = k) =>
                \A t \in normSet(vault[f].tags) \ normSet(initialTags(k)) :
                   t \in normSet(vault'[f].tags)]_vars

\* C34: when a tag merge sends Zotero a tag list that lacks a tag the item carries in
\* Zotero at that moment, that tag has been written into the item's note by a sync
\* before and is no longer in the tags: block of the note.
C34_RemoteAdditionKept ==
  [][\A c \in Calls :
       (SyncTags(c) /\ call'[c].pc = "write" /\ call'[c].cur.merge.push) =>
          LET cl == call[c]
              k == cl.items[cl.idx].key
              note == call'[c].cur.existingContent
              dropped == normSet(zoteroTagsOf(remote[k].tags))
                           \ normSet(zoteroTagsOf(call'[c].cur.merge.payload))
          IN \A t \in dropped :
                /\ t \in notedTags[k]
                /\ note.exists
                /\ t \notin normSet(parseFrontmatterTags(note))]_vars

\* C35: when an item has last-synced tags and a note, every tag that is among the
\* last-synced tags and among the item's Zotero tags but not in the tags: block of the
\* note is left out of the merged list, and patchItemTags is called with a tag list
\* that does not contain it (all by normalized form).
C35_LocalDeletePropagates ==
  \A c \in Calls :
    LET cl == call[c]
        m == cl.cur.merge
    IN (cl.pc = "write" /\ m.ran /\ m.hadContent /\ m.lastSynced.present) =>
          \A t \in (normSet(m.lastSynced.tags) \cap normSet(m.zoteroTags))
                     \ normSet(m.fmTags) :
             /\ t \notin normSet(cl.cur.mergedTags)
             /\ m.push
             /\ t \notin normSet(zoteroTagsOf(m.payload))
             /\ lastSyncedTags[cl.items[cl.idx].key].present
             /\ t \notin normSet(lastSyncedTags[cl.items[cl.idx].key].tags)

\* A merge has run for an item whose note lacks a tag that Zotero and the last-synced
\* tags have, while the note has a tag of its own and Zotero has a new one.
C35_Witness ==
  \E c \in Calls :
    LET cl == call[c]
        m == cl.cur.merge
    IN /\ cl.pc = "write" /\ m.ran /\ m.hadContent /\ m.lastSynced.present
       /\ (normSet(m.lastSynced.tags) \cap normSet(m.zoteroTags)) \ normSet(m.fmTags) # {}
       /\ normSet(m.fmTags) \ normSet(m.lastSynced.tags) # {}
       /\ normSet(m.zoteroTags) \ normSet(m.lastSynced.tags) # {}
       /\ m.push

\* C36: as long as no user has edited anything and no later sync is under way, the note
\* of every item a sync has written has a tags: block equal, by tagsEqual, to the item's
\* last-synced tags, so hasLocalTagChanges is false for it.
C36_PostProcessAgreement ==
  /\ \A c \in Calls :
       (call[c].pc # "idle" /\ call[c].clean) =>
          \A k \in call[c].done.written :
             LET note == vault[filenameOf(k)]
             IN /\ note.exists /\ lastSyncedTags[k].present
                /\ tagsEqual(parseFrontmatterTags(note), lastSyncedTags[k].tags)
                /\ ~hasLocalTagChanges(note, k)
  /\ (~isSyncing /\ returned.clean /\ returned.done.valid) =>
        \A k \in returned.done.written :
           LET note == vault[filenameOf(k)]
           IN /\ note.exists /\ lastSyncedTags[k].present
              /\ tagsEqual(parseFrontmatterTags(note), lastSyncedTags[k].tags)
              /\ ~hasLocalTagChanges(note, k)

\* ------------------------------------------- a save that fails after the write

\* renderContent and vault.modify / vault.create succeed and the result counts the
\* note; then setItemVersion assigns settings.itemVersions[item.key] and its save
\* throws, which the catch of the item (syncAll) or of the call (syncSingleItem) books
\* as an error.
SaveAfterWriteFails(c) ==
  /\ call[c].pc = "write"
  /\ LET cl == call[c]
         item == cl.items[cl.idx]
         filename == cl.cur.filename
         content == renderContent(item, cl.cur.mergedTags, cl.cur.templatePath)
         merged == [content EXCEPT !.body =
                      renderWithPreservedComments(cl.cur.existingContent.body, @)]
     IN /\ cl.cur.fileExists \/ ~vault[filename].exists
        /\ itemVersions' = [itemVersions EXCEPT ![item.key] = item.version]
        /\ vault' = [vault EXCEPT ![filename] =
                       IF cl.cur.fileExists /\ cl.cur.preserveUserContent
                       THEN merged ELSE content]
        /\ notedTags' = [notedTags EXCEPT ![item.key] = @ \cup normSet(cl.cur.mergedTags)]
        /\ ItemError(c, [cl EXCEPT !.result = resultAfterWrite(@, cl.cur.fileExists),
                                   !.done.written = @ \cup {item.key},
                                   !.done.createdNew = IF cl.cur.fileExists
                                                       THEN @ \ {item.key} ELSE @])
  /\ UNCHANGED <<lastSyncVersion, lastSyncedTags, itemFilenames, remote, remoteVersion, reg,
                 ops, req>>

NextSave == Next \/ \E c \in Calls : SaveAfterWriteFails(c)

SaveSpec == Init /\ [][NextSave]_vars

\* C37: when syncAll returns without having been aborted as a whole, created + updated
\* + skipped + the number of errors is the number of items the cycle was given, and
\* while it runs that sum is the number of items it has gone through; created grows
\* only by a write to a path where no note existed and updated only by a write to a
\* path where one did.
C37_AsStated ==
  /\ [](\A c \in Calls :
          LET cl == call[c]
          IN (cl.op = "syncAll" /\ cl.pc \in {"item", "release"}) =>
                cl.result.created + cl.result.updated + cl.result.skipped
                  + Len(cl.result.errors) = cl.idx - 1)
  /\ []((returned.op = "syncAll" /\ returned.how = "done" /\ returned.done.valid) =>
          returned.result.created + returned.result.updated + returned.result.skipped
            + Len(returned.result.errors) = Cardinality(returned.done.delivered))
  /\ [][\A c \in Calls :
          (call[c].op = "syncAll" /\ call[c].pc = "write" /\ call'[c].pc # "idle") =>
             LET r == call[c].result
                 s == call'[c].result
                 f == call[c].cur.filename
             IN /\ s.created \in {r.created, r.created + 1}
                /\ s.updated \in {r.updated, r.updated + 1}
                /\ s.created # r.created => (~vault[f].exists /\ vault'[f].exists)
                /\ s.updated # r.updated => (vault[f].exists /\ vault'[f].exists)]_vars

\* C37, as the code has it: when syncAll returns without having been aborted as a
\* whole, created + updated is the number of items written, skipped the number of
\* items skipped, every error is that of one item, every item the cycle was given is
\* written, skipped or has an error, and a skipped item is neither written nor has an
\* error; an item may be both written and have an error (the save of its version
\* failed after the write), so the sum of the counts is the number of items plus the
\* number of such items. created grows only by a write to a path where no note existed
\* and updated only by a write to a path where one did.
C37_Accounting ==
  /\ []((returned.op = "syncAll" /\ returned.how = "done" /\ returned.done.valid) =>
          LET r == returned.result
              d == returned.done
              errKeys == {r.errors[i].key : i \in 1..Len(r.errors)}
          IN /\ r.created + r.updated = Cardinality(d.written)
             /\ r.skipped = Cardinality(d.skipped)
             /\ Len(r.errors) = Cardinality(errKeys)
             /\ d.delivered = d.written \cup d.skipped \cup errKeys
             /\ d.skipped \cap (d.written \cup errKeys) = {}
             /\ r.created + r.updated + r.skipped + Len(r.errors)
                  = Cardinality(d.delivered) + Cardinality(d.written \cap errKeys))
  /\ [][\A c \in Calls :
          (call[c].op = "syncAll" /\ call[c].pc = "write" /\ call'[c].pc # "idle") =>
             LET r == call[c].result
                 s == call'[c].result
                 f == call[c].cur.filename
             IN /\ s.created \in {r.created, r.created + 1}
                /\ s.updated \in {r.updated, r.updated + 1}
                /\ s.created + s.updated <= r.created + r.updated + 1
                /\ s.created # r.created => (~vault[f].exists /\ vault'[f].exists)
                /\ s.updated # r.updated => (vault[f].exists /\ vault'[f].exists)]_vars

\* A syncAll has returned having gone through two items, one of them written and
\* booked as an error as well, the other created, updated or skipped.
C37_Witness ==
  /\ returned.op = "syncAll" /\ returned.how = "done" /\ returned.done.valid
  /\ Cardinality(returned.done.delivered) = 2
  /\ Len(returned.result.errors) = 1
  /\ \E i \in 1..Len(returned.result.errors) :
        returned.result.errors[i].key \in returned.done.written
  /\ returned.result.created + returned.result.updated + returned.result.skipped = 2

\* ------------------------------------------------ ZoteroApiClient.request

MaxRequests == 2
MaxAttempts == 3

\* The paths and methods the client asks for, the statuses the library answers with,
\* and the values of its Backoff and Retry-After headers, in seconds.
Paths == {"/items", "/items/K1"}
Methods == {"GET", "PATCH"}
Statuses == {200, 403, 429, 503}
Backoffs == {NoHeader, 1}
RetryAfters == {NoHeader, 0, 2}

\* const waitMs = retryAfter ? parseInt(retryAfter, 10) * 1000 : 10000
waitMs(retryAfter) == IF retryAfter # NoHeader THEN retryAfter * 1000 ELSE 10000

\* The sleeps of one response: that of the backoff header, then that of a 429.
sleepMs(status, backoff, retryAfter) ==
  (IF backoff # NoHeader THEN backoff * 1000 ELSE 0)
    + (IF status = 429 THEN waitMs(retryAfter) ELSE 0)

\* What request does with a response once its sleeps are over: a 429 is asked again
\* with the same path, params and options, a status >= 400 is thrown, any other
\* response is returned.
afterSleeps(r) ==
  IF r.status = 429 THEN [r EXCEPT !.pc = "entered", !.attempts = @ + 1]
  ELSE IF r.status >= 400 THEN [r EXCEPT !.pc = "thrown"]
  ELSE [r EXCEPT !.pc = "returned"]

\* A method of the client calls this.request(path, params, options).
request ==
  /\ req.pc \in {"idle", "returned", "thrown", "null"}
  /\ req.calls < MaxRequests
  /\ \E path \in Paths, method \in Methods :
       req' = [NoRequest EXCEPT !.pc = "entered", !.path = path, !.method = method,
                                !.attempts = 1, !.calls = req.calls + 1]
  /\ UNCHANGED <<isSyncing, settingsVars, vault, notedTags, remote, remoteVersion, call,
                 reg, returned, ops>>

\* request up to requestUrl(reqParams): without an API key it throws.
requestUrl ==
  /\ req.pc = "entered"
  /\ \E apiKey \in BOOLEAN :
       req' = IF apiKey THEN [req EXCEPT !.pc = "sent"]
              ELSE [req EXCEPT !.pc = "thrown", !.status = 0]
  /\ UNCHANGED <<isSyncing, settingsVars, vault, notedTags, remote, remoteVersion, call,
                 reg, returned, ops>>

\* requestUrl settles: it rejects (no connection), or it resolves with a response,
\* whose sleeps are started when it has any. The library answers 429 to a bounded
\* number of attempts of one call.
Respond ==
  /\ req.pc = "sent"
  /\ \/ req' = [req EXCEPT !.pc = "thrown", !.status = 0]
     \/ \E status \in Statuses, backoff \in Backoffs, retryAfter \in RetryAfters :
          /\ status = 429 => req.attempts < MaxAttempts
          /\ LET got == [req EXCEPT !.status = status, !.backoff = backoff,
                                    !.retryAfter = retryAfter, !.slept = 0,
                                    !.sleepFor = sleepMs(status, backoff, retryAfter)]
             IN req' = IF backoff # NoHeader \/ status = 429
                       THEN [got EXCEPT !.pc = "sleeping"]
                       ELSE afterSleeps(got)
  /\ UNCHANGED <<isSyncing, settingsVars, vault, notedTags, remote, remoteVersion, call,
                 reg, returned, ops>>

\* The timers of sleep(ms) have fired.
sleep ==
  /\ req.pc = "sleeping"
  /\ req' = afterSleeps([req EXCEPT !.slept = req.sleepFor])
  /\ UNCHANGED <<isSyncing, settingsVars, vault, notedTags, remote, remoteVersion, call,
                 reg, returned, ops>>

\* syncAll asks for the image of an annotation: fetchAnnotationImage(annotationKey)
\* builds the request for /items/<key>/file itself.
fetchAnnotationImage ==
  /\ req.pc \in {"idle", "returned", "thrown", "null"}
  /\ req.calls < MaxRequests
  /\ req' = [NoRequest EXCEPT !.pc = "image", !.path = "/items/A1/file",
                              !.method = "GET", !.attempts = 1,
                              !.calls = req.calls + 1]
  /\ UNCHANGED <<isSyncing, settingsVars, vault, notedTags, remote, remoteVersion, call,
                 reg, returned, ops>>

\* The rest of fetchAnnotationImage: null without an API key, null when requestUrl
\* rejects (the catch), the bytes of a response of status 200, null for a response of
\* any other status.
RespondImage ==
  /\ req.pc = "image"
  /\ \/ req' = [req EXCEPT !.pc = "null", !.status = 0]
     \/ \E status \in Statuses, backoff \in Backoffs, retryAfter \in RetryAfters :
          req' = [req EXCEPT !.status = status, !.backoff = backoff,
                             !.retryAfter = retryAfter,
                             !.pc = IF status = 200 THEN "returned" ELSE "null"]
  /\ UNCHANGED <<isSyncing, settingsVars, vault, notedTags, remote, remoteVersion, call,
                 reg, returned, ops>>

NextRequest ==
  request \/ requestUrl \/ Respond \/ sleep \/ fetchAnnotationImage \/ RespondImage

\* requestUrl settles and timers fire.
RequestSpec ==
  /\ Init /\ [][NextRequest]_vars
  /\ WF_vars(requestUrl) /\ WF_vars(Respond) /\ WF_vars(sleep) /\ WF_vars(RespondImage)

\* C38: a response of status 429 is never what a call of the client ends with: the
\* client sleeps for at least the Retry-After seconds of the response (10 s without
\* the header) and then asks again with the same path and method; and every call that
\* has been started comes to return a response or throw an error, the library
\* answering 429 to a bounded number of attempts.
C38_RateLimitRetry ==
  /\ [](req.pc \in {"returned", "thrown", "null"} => req.status # 429)
  /\ [][(req.pc \in {"sent", "image"} /\ req'.status = 429) => req'.pc = "sleeping"]_vars
  /\ [][(req.pc = "sleeping" /\ req.status = 429) =>
          /\ req'.pc = "entered"
          /\ req'.path = req.path /\ req'.method = req.method
          /\ req'.calls = req.calls /\ req'.attempts = req.attempts + 1
          /\ req'.slept >= (IF req.retryAfter = NoHeader THEN 10000
                            ELSE req.retryAfter * 1000)]_vars
  /\ (req.pc \in {"entered", "image"}) ~> (req.pc \in {"returned", "thrown"})
====
